---------------------------- MODULE Spec2Model ----------------------------
(***************************************************************************)
(* The Wrench libraries as state machines, one specification for each:     *)
(*   Spec, SpecAnyRegistry  Variant<TArgs...>        (source/variant.hpp)  *)
(*   SpecConstexpr          the compile-time functions of variant.hpp and  *)
(*                          result.hpp                                     *)
(*   SpecResult             Result<T, E>             (source/result.hpp)   *)
(*   SpecDelegate           Delegate<TArgs...>       (source/delegate.hpp) *)
(*   SpecDelegateThreads    the Delegate called from several threads, and  *)
(*                          SpecDelegateThreadsFair, with fair threads     *)
(*   SpecDefer              defer(op)          (source/deferOperation.hpp) *)
(*   SpecMemTracker         the memory tracker     (source/memTracker.hpp) *)
(*   SpecStringUtils        StringUtils           (source/stringUtils.hpp) *)
(*                          and SpecStringUtilsFair, with a fair thread    *)
(* Every specification runs one library; the variables of the others keep  *)
(* their initial values.                                                   *)
(*                                                                         *)
(* A Variant is a raw buffer (mStorage) and a tag (mCurrTypeId).  The      *)
(* model keeps, next to the bytes of every buffer, the count of the        *)
(* payload objects that were constructed in the buffer and not destroyed   *)
(* (live), and in the bytes the buffer they were constructed in (home):    *)
(* the instrumented payload type of the test suite, which counts           *)
(* constructions and destructions.                                         *)
(***************************************************************************)
EXTENDS Integers, Sequences, FiniteSets, TLC

\* ------------------------------------------------------------------ bounds
NumInstances == 2      \* Variant instances created in one run
MaxObjects   == 2      \* payload objects constructed in one run
MaxValue     == 2      \* payload values are 1..MaxValue
MaxAlternatives == 2   \* length of the type lists given to the templates
NumResults   == 2      \* Result instances created in one run
MaxPayloads  == 2      \* payload objects constructed in Results in one run
MaxListeners == 3      \* length of the Delegate's listener vector
NumCallables == 2      \* distinct callables given to Subscribe
NumThreads   == 2      \* threads that call one Delegate
MaxCalls     == 2      \* calls the threads make in one run
MaxDefers    == 3      \* defer statements in one run
MaxDepth     == 2      \* nested lexical scopes
MaxCounter   == 10     \* largest value of __COUNTER__ before the first defer
MaxLine      == 10     \* largest value of __LINE__
MaxAllocations == 3    \* blocks of the heap, calls of operator new counted
                       \* at one time, and nodes of the allocation list
MaxSize      == 2      \* largest sizeof(T) given to operator new
MaxLen       == 4      \* length of the strings given to StringUtils
MaxWhat      == 2      \* length of the patterns, replacements and delimiter
                       \* lists given to StringUtils
MaxStringSize == 5     \* std::string::max_size()

Instances == 1..NumInstances
Values    == 1..MaxValue

\* Payload values are opaque to the Variant, which only copies them: the
\* payloads of a run are given different values, in turn, so that a read of
\* another payload than the one meant shows in the value.
NextValues(k) == {((k - 1) % MaxValue) + 1}

\* ------------------------------------------------------- alternative types
\* The types the tests instantiate Variant with, and char, which the tests
\* query but never list as an alternative.
AllTypes == {"int", "string", "char"}

\* Types whose object owns a heap block: the buffer holds only a pointer to
\* it (std::string, TScopeGuard's std::function).
ResourceTypes == {"string"}

\* Alternative lists under test: a trivial type at index 0 followed by a
\* resource type (the tests' Variant<int, float, std::string> without float),
\* and the single-alternative Variant<std::string>.
Registries == { <<"int", "string">>, <<"string">> }

\* (std::numeric_limits<size_t>::max)(), the "nothing found" result.  The
\* model's integers are 32 bits wide, so the sentinel is the largest of them.
NotFound == 2147483647

\* A mutant of GetIndexOfTypeInternal: "nothing found" reported as 0.
RECURSIVE GetIndexOfTypeInternalZero(_, _, _)
GetIndexOfTypeInternalZero(index, TWhat, TArgs) ==
    IF TArgs = <<>> THEN 0
    ELSE IF TWhat = Head(TArgs) THEN index
         ELSE GetIndexOfTypeInternalZero(index + 1, TWhat, Tail(TArgs))

\* A mutant of GetIndexOfTypeInternal: the index is not advanced.
RECURSIVE GetIndexOfTypeInternalSameIndex(_, _, _)
GetIndexOfTypeInternalSameIndex(index, TWhat, list) ==
    IF list = <<>> THEN NotFound
    ELSE IF TWhat = Head(list) THEN index
         ELSE GetIndexOfTypeInternalSameIndex(index, TWhat, Tail(list))

\* template <size_t index, typename TWhat, typename TCurrent, typename... TArgs>
\* GetIndexOfTypeInternal(): first position of TWhat, counted from index.
RECURSIVE GetIndexOfTypeInternal(_, _, _)
GetIndexOfTypeInternal(index, TWhat, TArgs) ==
    IF TArgs = <<>> THEN NotFound
    ELSE IF TWhat = Head(TArgs) THEN index
         ELSE GetIndexOfTypeInternal(index + 1, TWhat, Tail(TArgs))

GetIndexOfType(TWhat, TArgs) == GetIndexOfTypeInternal(0, TWhat, TArgs)

\* The types given to the compile-time functions: the alternatives above
\* and float, which the tests list as well.
TypeNames == AllTypes \cup {"float"}

\* The type lists given to the templates, the empty list included.
TypeLists == UNION { [1..n -> TypeNames] : n \in 0..MaxAlternatives }

\* sizeof(T) and alignof(T), as the LP64 ABI with libstdc++ gives them.
SizeOf(T) ==
    CASE T = "char" -> 1 [] T = "int" -> 4 [] T = "float" -> 4
      [] T = "string" -> 32

AlignOf(T) ==
    CASE T = "char" -> 1 [] T = "int" -> 4 [] T = "float" -> 4
      [] T = "string" -> 8

\* A mutant of GetMaxSize: the comparison is reversed.
RECURSIVE GetMaxSizeReversed(_)
GetMaxSizeReversed(list) ==
    IF Len(list) = 1 THEN SizeOf(Head(list))
    ELSE IF SizeOf(Head(list)) < GetMaxSizeReversed(Tail(list))
         THEN SizeOf(Head(list)) ELSE GetMaxSizeReversed(Tail(list))

\* template <typename T> GetMaxSize(): sizeof(T);
\* template <typename T, typename... TArgs> GetMaxSize(), for a non-empty
\* TArgs: sizeof(T) > GetMaxSize<TArgs...>() ? sizeof(T) : GetMaxSize<TArgs...>().
\* No overload takes an empty list.
RECURSIVE GetMaxSize(_)
GetMaxSize(list) ==
    IF Len(list) = 1 THEN SizeOf(Head(list))
    ELSE IF SizeOf(Head(list)) > GetMaxSize(Tail(list))
         THEN SizeOf(Head(list)) ELSE GetMaxSize(Tail(list))

\* Variant<list...> can be instantiated: its TStorageType needs
\* GetMaxSize<list...>(), which has no overload for an empty list.  Nothing
\* else in the class restricts the list.
Instantiable(list) == list # <<>>

\* Storage<T, E>::mSize
mSize(T, E) == IF SizeOf(T) > SizeOf(E) THEN SizeOf(T) ELSE SizeOf(E)

\* Storage<T, E>::mAlignment
mAlignment(T, E) == IF AlignOf(T) > AlignOf(E) THEN AlignOf(E) ELSE AlignOf(E)

\* ------------------------------------------------------------------- state
VARIABLES
    TArgs,        \* the alternative list of the Variant type under test
    inst,         \* inst[v]: life state, mCurrTypeId and mStorage of instance
                  \* v, and the count of live payload objects in its buffer
    constructed,  \* number of payload constructor runs so far
    lastOp,       \* the operation that ran last, its arguments and its
                  \* constructor / destructor events in program order
    terminated    \* std::terminate() has been called

variantVars == <<TArgs, inst, constructed, lastOp, terminated>>

\* The compile-time functions.
VARIABLES
    constexprCall,   \* the function evaluated last and its template arguments
    constexprValue   \* the value it evaluated to

constexprVars == <<constexprCall, constexprValue>>

\* Result<T, E>.
VARIABLES
    TE,           \* <<T, E>>, the parameters of the Result type under test
    res,          \* res[r]: life state and Storage (mIsInitialized, mIsValid,
                  \* mData) of Result instance r, for the instances
                  \* constructed so far
    payloads,     \* payloads[o]: destructor runs on payload object o so far,
                  \* for the payload objects constructed so far
    resOp,        \* the Result operation that ran last, what it returned and
                  \* its constructor / destructor events in program order
    panicked      \* Panic() has been called

resultVars == <<TE, res, payloads, resOp, panicked>>

\* Delegate<TArgs...>.
VARIABLES
    mListeners,             \* std::vector<std::function<void(TArgs...)>>
    mFirstFreeEntityIndex,  \* size_t
    subscriptions,          \* the Subscribe calls with a non-empty callable
                            \* whose handle has not been unsubscribed since,
                            \* in the order of the calls
    delOp,                  \* the Delegate operation that ran last, what it
                            \* returned and the listeners it invoked, in order
    asserted,               \* WRENCH_ASSERT(false) has aborted the process
    unsubscribed,           \* the handles for which Unsubscribe has returned
                            \* true
    delegateThreads         \* mMutex, and the calls the threads of the program
                            \* are in: the fields of one record

delegateVars ==
    <<mListeners, mFirstFreeEntityIndex, subscriptions, delOp, asserted,
      unsubscribed, delegateThreads>>

\* std::mutex mMutex: the thread that owns it, 0 when it is unlocked.
mMutex == delegateThreads.mMutex

\* stacks[t]: the calls of the Delegate's member functions thread t is in,
\* the outermost first.
stacks == delegateThreads.stacks

\* The number of calls the threads have made so far.
calls == delegateThreads.calls

\* defer(op): the translation unit being compiled and the scopes of its run,
\* the fields of one record.
VARIABLES
    deferState

deferVars == <<deferState>>

\* The value the next __COUNTER__ expands to, and the value __LINE__ expands
\* to at the current statement.
counter == deferState.counter
line == deferState.line

\* The open lexical scopes, innermost last; each is the sequence of the
\* TDeferOperation objects declared in it, in the order of their
\* declarations.
scopes == deferState.scopes

\* ops[k]: the callable given to the k-th defer statement, its line and the
\* depth of its scope.
ops == deferState.ops

\* The callables invoked so far, in the order of the calls.
executed == deferState.executed

\* The memory tracker: MemoryTrackerInfo and the heap under it, the fields of
\* one record.
VARIABLES
    memTrackerState

memTrackerVars == <<memTrackerState>>

\* The fields of MemoryTrackerInfo: two size_t, and the linked list of
\* TAllocationInfo nodes, head first.
mAllocationsCount == memTrackerState.mAllocationsCount
mTotalUsedMemory == memTrackerState.mTotalUsedMemory
mpAllocationsListCurrPtr == memTrackerState.mpAllocationsListCurrPtr

\* The blocks operator new has returned and operator delete has not freed,
\* oldest first: the pointer returned, the size requested, the size_t in the
\* header in front of it and the address operator| recorded for it.
blocks == memTrackerState.blocks

\* WRENCH_UNREACHABLE() has aborted the process.
unreachable == memTrackerState.unreachable

\* StringUtils: a call and its progress, the fields of one record.
VARIABLES
    stringUtilsState

stringUtilsVars == <<stringUtilsState>>

\* The StringUtils function that is called and its arguments.
suCall == stringUtilsState.suCall

\* The local variable output of ReplaceAll while it runs; the value returned
\* by a call that has returned.
output == stringUtilsState.output

\* The call is running, has returned, has thrown an exception or has aborted
\* the process.
suStatus == stringUtilsState.suStatus

vars ==
    <<variantVars, constexprVars, resultVars, delegateVars, deferVars,
      memTrackerVars, stringUtilsVars>>

\* What an operation of one library leaves alone.
notVariantVars ==
    <<constexprVars, resultVars, delegateVars, deferVars, memTrackerVars,
      stringUtilsVars>>
notConstexprVars ==
    <<variantVars, resultVars, delegateVars, deferVars, memTrackerVars,
      stringUtilsVars>>
notResultVars ==
    <<variantVars, constexprVars, delegateVars, deferVars, memTrackerVars,
      stringUtilsVars>>
notDelegateVars ==
    <<variantVars, constexprVars, resultVars, deferVars, memTrackerVars,
      stringUtilsVars>>
notDeferVars ==
    <<variantVars, constexprVars, resultVars, delegateVars, memTrackerVars,
      stringUtilsVars>>
notMemTrackerVars ==
    <<variantVars, constexprVars, resultVars, delegateVars, deferVars,
      stringUtilsVars>>
notStringUtilsVars ==
    <<variantVars, constexprVars, resultVars, delegateVars, deferVars,
      memTrackerVars>>

\* Bytes of a value-initialised buffer: mStorage() in the constructor.
ZeroImage == [type |-> "none", val |-> 0, home |-> 0]

\* The address of the buffer of a function-local Variant (MakeVariant's v).
LocalBuffer == 0

\* Bytes of an object of type T with value x that was constructed in the
\* buffer at home.  For a resource type the bytes are a pointer to the heap
\* block of that object, which holds x, and home tells the objects apart;
\* the bytes of a trivially copyable type carry nothing but the value.
ImageOf(T, x, home) ==
    [type |-> T, val |-> x, home |-> IF T \in ResourceTypes THEN home ELSE 0]

NoInstance ==
    [state |-> "none", mCurrTypeId |-> 0, mStorage |-> ZeroImage, live |-> 0]

\* An instance after ~Variant(): its buffer no longer exists.
DeadInstance ==
    [state |-> "dead", mCurrTypeId |-> 0, mStorage |-> ZeroImage, live |-> 0]

NoOp == [op |-> "none", dst |-> 0, src |-> 0, type |-> "none", val |-> 0,
         events |-> <<>>]

\* Record of an operation: its name, the instances it ran on, the type and
\* value it was given, and the payload constructor / destructor runs it made,
\* in program order.
Op(name, d, s, T, x, evs) ==
    [op |-> name, dst |-> d, src |-> s, type |-> T, val |-> x, events |-> evs]

Alive(v) == inst[v].state = "alive"

\* Instances are numbered in the order of their construction: v is the next
\* one to construct when every instance before it has been constructed.
Fresh(v) ==
    /\ inst[v].state = "none"
    /\ \A u \in Instances : u < v => inst[u].state # "none"

\* ------------------------------------------- constructor / destructor events
\* T's constructor runs in the buffer at home.
CtorEvent(T, home) == [kind |-> "ctor", type |-> T, home |-> home]

\* The destructor of the T that was constructed in the buffer at home runs.
DtorEvent(T, home) == [kind |-> "dtor", type |-> T, home |-> home]

\* The instrumentation: constructions minus destructions, per buffer, of the
\* objects that have a constructor and a destructor to run.
ApplyEvent(i, e) ==
    IF e.type \in ResourceTypes /\ e.home \in Instances
    THEN [i EXCEPT ![e.home].live = IF e.kind = "ctor" THEN @ + 1 ELSE @ - 1]
    ELSE i

RECURSIVE ApplyEvents(_, _)
ApplyEvents(i, evs) ==
    IF evs = <<>> THEN i ELSE ApplyEvents(ApplyEvent(i, Head(evs)), Tail(evs))

\* A mutant of StorageDestructor: the destructor of the payload whose bytes
\* are in the buffer runs.
StorageDestructorOfPayload(img) ==
    IF img.type # "none" THEN <<DtorEvent(img.type, img.home)>> ELSE <<>>

\* mStorage.~TStorageType(): the destructor of std::aligned_storage<>::type,
\* a trivial destructor.  It runs the destructor of no payload object.
StorageDestructor(img) == <<>>

\* new (&mStorage) T(value): T's copy constructor runs in the buffer at home.
PlacementNew(T, home) == <<CtorEvent(T, home)>>

\* ----------------------------------------------------------------- queries
\* The tag test of Is<T>() on the record r of an instance.
IsType(r, T) == r.mCurrTypeId = GetIndexOfType(T, TArgs)

\* Is<T>() on instance v.
Is(v, T) == IsType(inst[v], T)

\* The value read through reinterpret_cast<T&>(mStorage).
PayloadValue(img) == img.val

\* -------------------------------------------------- copy, move, swap of records
\* Variant(const Variant& ref): mStorage(ref.mStorage), mCurrTypeId(ref.mCurrTypeId)
\* No payload constructor runs in the new buffer.
CopyConstructed(ref) ==
    [state |-> "alive", mCurrTypeId |-> ref.mCurrTypeId,
     mStorage |-> ref.mStorage, live |-> 0]

\* Variant(Variant&& ref): mStorage(std::move(ref.mStorage)), mCurrTypeId(ref.mCurrTypeId)
\* Moving the aligned storage copies its bytes.
MoveConstructed(ref) ==
    [state |-> "alive", mCurrTypeId |-> ref.mCurrTypeId,
     mStorage |-> ref.mStorage, live |-> 0]

\* A mutant of MovedFrom: the source is reset to tag 0.
MovedFromReset(ref) == [ref EXCEPT !.mCurrTypeId = 0]

\* The source of Variant(Variant&& ref) afterwards: the constructor writes
\* nothing to ref.
MovedFrom(ref) == ref

\* A mutant of SwapRecords: the tags are not exchanged.
SwapRecordsStorageOnly(v1, v2) ==
    << [v1 EXCEPT !.mStorage = v2.mStorage],
       [v2 EXCEPT !.mStorage = v1.mStorage] >>

\* Swap(v1, v2): std::swap of mStorage and of mCurrTypeId.
SwapRecords(v1, v2) ==
    << [v1 EXCEPT !.mStorage = v2.mStorage, !.mCurrTypeId = v2.mCurrTypeId],
       [v2 EXCEPT !.mStorage = v1.mStorage, !.mCurrTypeId = v1.mCurrTypeId] >>

\* ------------------------------------------ the other libraries at rest
\* No compile-time function has been evaluated.
NoCall == [fn |-> "none"]

ConstexprInit ==
    /\ constexprCall = NoCall
    /\ constexprValue = 0

\* Result instances.
Results == 1..NumResults

\* The parameters <<T, E>> of the Result types under test: the payload with
\* a destructor on the success side (the tests' Result<TScopeGuard, int>)
\* and on the error side.
ResultTypes == { <<"string", "int">>, <<"int", "string">> }

\* Bytes of a Storage's mData in which nothing was constructed.
ZeroData == [type |-> "none", val |-> 0, obj |-> 0]

\* A Result after its destructor: its Storage no longer exists.
DeadResult ==
    [state |-> "dead", mIsInitialized |-> FALSE, mIsValid |-> FALSE,
     mData |-> ZeroData]

\* No Result operation has run.
NoResOp == [op |-> "none"]

\* No Result has been constructed.
NoResults ==
    /\ res = <<>>
    /\ payloads = <<>>
    /\ resOp = NoResOp
    /\ panicked = FALSE

ResultInit == TE \in ResultTypes /\ NoResults

\* Result<std::string, int>, not used.
ResultIdle == TE = <<"string", "int">> /\ NoResults

\* (std::numeric_limits<size_t>::max)(): no free entry in mListeners.
NoFreeEntityIndex == NotFound

\* No Delegate operation has run.
NoDelOp == [op |-> "none"]

\* The program calls the Delegate from one thread, one call at a time: the
\* mutex is unlocked between the calls.
OneThread == [mMutex |-> 0, stacks |-> <<>>, calls |-> 0]

\* Delegate(): mListeners is empty, mFirstFreeEntityIndex is the maximum.
DelegateInit ==
    /\ mListeners = <<>>
    /\ mFirstFreeEntityIndex = NoFreeEntityIndex
    /\ subscriptions = <<>>
    /\ delOp = NoDelOp
    /\ asserted = FALSE
    /\ unsubscribed = {}
    /\ delegateThreads = OneThread

\* No scope is open and no defer statement has run.
NoScopes(c, l) ==
    [counter |-> c, line |-> l, scopes |-> <<>>, ops |-> <<>>,
     executed |-> <<>>]

\* A translation unit without defer statements.
DeferIdle == deferState = NoScopes(0, 1)

\* static TMemInfo MemoryTrackerInfo: both counters 0, the list empty; the
\* heap holds no block.
NoAllocations ==
    [mAllocationsCount |-> 0, mTotalUsedMemory |-> 0,
     mpAllocationsListCurrPtr |-> <<>>, blocks |-> <<>>,
     unreachable |-> FALSE]

MemTrackerInit == memTrackerState = NoAllocations

\* No StringUtils function has been called.
NoSuCall == [fn |-> "none"]

\* The call has not been entered.
Called(call) == [suCall |-> call, output |-> <<>>, suStatus |-> "idle"]

StringUtilsInit == stringUtilsState = Called(NoSuCall)

\* No Variant has been constructed.
NoVariants ==
    /\ inst = [v \in Instances |-> NoInstance]
    /\ constructed = 0
    /\ lastOp = NoOp
    /\ terminated = FALSE

\* Variant<int, std::string>, not used.
VariantIdle == TArgs = <<"int", "string">> /\ NoVariants

\* ------------------------------------------------------------------- Init
Init ==
    /\ TArgs \in Registries
    /\ inst = [v \in Instances |-> NoInstance]
    /\ constructed = 0
    /\ lastOp = NoOp
    /\ terminated = FALSE
    /\ ConstexprInit /\ ResultIdle /\ DelegateInit /\ DeferIdle
    /\ MemTrackerInit /\ StringUtilsInit

\* Variant(): mStorage(), mCurrTypeId(0)
DefaultConstruct(v) ==
    /\ ~terminated
    /\ Fresh(v)
    /\ inst' = [inst EXCEPT ![v] =
                   [state |-> "alive", mCurrTypeId |-> 0,
                    mStorage |-> ZeroImage, live |-> 0]]
    /\ lastOp' = Op("DefaultConstruct", v, 0, "none", 0, <<>>)
    /\ UNCHANGED <<TArgs, constructed, terminated>>
    /\ UNCHANGED notVariantVars

\* Variant(const Variant& ref)
CopyConstruct(dst, src) ==
    /\ ~terminated
    /\ Fresh(dst)
    /\ Alive(src)
    /\ inst' = [inst EXCEPT ![dst] = CopyConstructed(inst[src])]
    /\ lastOp' = Op("CopyConstruct", dst, src, "none", 0, <<>>)
    /\ UNCHANGED <<TArgs, constructed, terminated>>
    /\ UNCHANGED notVariantVars

\* Variant(Variant&& ref)
MoveConstruct(dst, src) ==
    /\ ~terminated
    /\ Fresh(dst)
    /\ Alive(src)
    /\ inst' = [inst EXCEPT ![dst] = MoveConstructed(inst[src]),
                            ![src] = MovedFrom(inst[src])]
    /\ lastOp' = Op("MoveConstruct", dst, src, "none", 0, <<>>)
    /\ UNCHANGED <<TArgs, constructed, terminated>>
    /\ UNCHANGED notVariantVars

\* ~Variant(): mStorage.~TStorageType()
Destroy(v) ==
    /\ ~terminated
    /\ Alive(v)
    /\ LET evs == StorageDestructor(inst[v].mStorage) IN
        /\ inst' = [ApplyEvents(inst, evs) EXCEPT ![v] = DeadInstance]
        /\ lastOp' = Op("Destroy", v, 0, "none", 0, evs)
    /\ UNCHANGED <<TArgs, constructed, terminated>>
    /\ UNCHANGED notVariantVars

\* template <typename T> const T& operator= (const T& value)
AssignValue(v, T, x) ==
    /\ ~terminated
    /\ Alive(v)
    /\ constructed < MaxObjects
    /\ x \in NextValues(constructed + 1)
    /\ LET evs == (IF inst[v].mCurrTypeId # 0
                   THEN StorageDestructor(inst[v].mStorage) ELSE <<>>)
                  \o PlacementNew(T, v)
       IN /\ inst' = [ApplyEvents(inst, evs) EXCEPT
                         ![v].mCurrTypeId = GetIndexOfType(T, TArgs),
                         ![v].mStorage = ImageOf(T, x, v)]
          /\ lastOp' = Op("AssignValue", v, 0, T, x, evs)
    /\ constructed' = constructed + 1
    /\ UNCHANGED <<TArgs, terminated>>
    /\ UNCHANGED notVariantVars

\* Variant& operator= (Variant value), called as dst = src with src an lvalue
\* (dst = dst included): value is copy-constructed from src, lives for the
\* call and is destroyed when the call returns.
CopyAssign(dst, src) ==
    /\ ~terminated
    /\ Alive(dst) /\ Alive(src)
    /\ LET value == CopyConstructed(inst[src])
           e1    == StorageDestructor(inst[dst].mStorage)
           i1    == ApplyEvents(inst, e1)
           sw    == SwapRecords(i1[dst], value)
           i2    == [i1 EXCEPT ![dst] = sw[1]]
           e2    == StorageDestructor(sw[2].mStorage)
       IN /\ inst' = ApplyEvents(i2, e2)
          /\ lastOp' = Op("CopyAssign", dst, src, "none", 0, e1 \o e2)
    /\ UNCHANGED <<TArgs, constructed, terminated>>
    /\ UNCHANGED notVariantVars

\* Variant& operator= (Variant&& value): value is src itself.  No property
\* below refers to the arguments of a move assignment, so lastOp keeps its
\* name and events only.
MoveAssign(dst, src) ==
    /\ ~terminated
    /\ Alive(dst) /\ Alive(src)
    /\ LET e1 == StorageDestructor(inst[dst].mStorage)
           i1 == ApplyEvents(inst, e1)
           sw == SwapRecords(i1[dst], i1[src])
       IN /\ inst' = [i1 EXCEPT ![dst] = sw[1], ![src] = sw[2]]
          /\ lastOp' = Op("MoveAssign", 0, 0, "none", 0, e1)
    /\ UNCHANGED <<TArgs, constructed, terminated>>
    /\ UNCHANGED notVariantVars

\* friend void Swap(Variant& v1, Variant& v2).  Swap(v2, v1) has the same
\* effect, so the arguments are taken in one order only.
Swap(v1, v2) ==
    /\ ~terminated
    /\ v1 <= v2
    /\ Alive(v1) /\ Alive(v2)
    /\ LET sw == SwapRecords(inst[v1], inst[v2]) IN
          inst' = [inst EXCEPT ![v1] = sw[1], ![v2] = sw[2]]
    /\ lastOp' = Op("Swap", v1, v2, "none", 0, <<>>)
    /\ UNCHANGED <<TArgs, constructed, terminated>>
    /\ UNCHANGED notVariantVars

\* template <typename T> const T& As() const, template <typename T> T& As():
\* the two forms have the same body, std::terminate() unless Is<T>(),
\* otherwise a reference to mStorage, which writes nothing.
\* std::terminate() ends the process without running any destructor: no
\* instance exists afterwards.
As(v, T) ==
    /\ ~terminated
    /\ Alive(v)
    /\ IF Is(v, T)
       THEN UNCHANGED <<inst, lastOp, terminated>>
       ELSE /\ terminated' = TRUE
            /\ inst' = [u \in Instances |-> DeadInstance]
            /\ lastOp' = Op("As", v, 0, T, 0, <<>>)
    /\ UNCHANGED <<TArgs, constructed>>
    /\ UNCHANGED notVariantVars

\* Variant<TArgs...> r = MakeVariant<T, TArgs...>(value):
\*   Variant<TArgs...> v; v = std::forward<T>(value); return std::move(v);
\* T is constructed in the buffer of the local v, r is move-constructed from
\* v, then v is destroyed.
MakeVariant(r, T, x) ==
    /\ ~terminated
    /\ Fresh(r)
    /\ constructed < MaxObjects
    /\ x \in NextValues(constructed + 1)
    /\ LET v   == [state |-> "alive",
                   mCurrTypeId |-> GetIndexOfType(T, TArgs),
                   mStorage |-> ImageOf(T, x, LocalBuffer), live |-> 1]
           evs == PlacementNew(T, LocalBuffer)
                  \o StorageDestructor(MovedFrom(v).mStorage)
       IN /\ inst' = [ApplyEvents(inst, evs) EXCEPT ![r] = MoveConstructed(v)]
          /\ lastOp' = Op("MakeVariant", r, 0, T, x, evs)
    /\ constructed' = constructed + 1
    /\ UNCHANGED <<TArgs, terminated>>
    /\ UNCHANGED notVariantVars

\* --------------------------------------------- the compile-time functions
EvalGetIndexOfType(TWhat, list) ==
    /\ constexprCall' = [fn |-> "GetIndexOfType", what |-> TWhat, args |-> list]
    /\ constexprValue' = GetIndexOfType(TWhat, list)
    /\ UNCHANGED notConstexprVars

EvalGetMaxSize(list) ==
    /\ list # <<>>
    /\ constexprCall' = [fn |-> "GetMaxSize", what |-> "none", args |-> list]
    /\ constexprValue' = GetMaxSize(list)
    /\ UNCHANGED notConstexprVars

EvalSize(T, E) ==
    /\ constexprCall' = [fn |-> "mSize", what |-> "none", args |-> <<T, E>>]
    /\ constexprValue' = mSize(T, E)
    /\ UNCHANGED notConstexprVars

EvalAlignment(T, E) ==
    /\ constexprCall' = [fn |-> "mAlignment", what |-> "none", args |-> <<T, E>>]
    /\ constexprValue' = mAlignment(T, E)
    /\ UNCHANGED notConstexprVars

ConstexprNext ==
    \/ \E T \in TypeNames, list \in TypeLists : EvalGetIndexOfType(T, list)
    \/ \E list \in TypeLists : EvalGetMaxSize(list)
    \/ \E T, E \in TypeNames : EvalSize(T, E)
    \/ \E T, E \in TypeNames : EvalAlignment(T, E)

SpecConstexprInit ==
    VariantIdle /\ ConstexprInit /\ ResultIdle /\ DelegateInit /\ DeferIdle
    /\ MemTrackerInit /\ StringUtilsInit

SpecConstexpr == SpecConstexprInit /\ [][ConstexprNext]_vars

\* ------------------------------------------------ Variant, any type list
\* The Variant types that can be instantiated over the alternatives above.
SpecAnyRegistryInit ==
    /\ TArgs \in {list \in TypeLists :
                     Instantiable(list) /\ \A k \in 1..Len(list) : list[k] \in AllTypes}
    /\ NoVariants
    /\ ConstexprInit /\ ResultIdle /\ DelegateInit /\ DeferIdle
    /\ MemTrackerInit /\ StringUtilsInit

Next ==
    \/ \E v \in Instances : DefaultConstruct(v)
    \/ \E d, s \in Instances : CopyConstruct(d, s)
    \/ \E d, s \in Instances : MoveConstruct(d, s)
    \/ \E v \in Instances : Destroy(v)
    \/ \E v \in Instances, T \in AllTypes, x \in Values : AssignValue(v, T, x)
    \/ \E d, s \in Instances : CopyAssign(d, s)
    \/ \E d, s \in Instances : MoveAssign(d, s)
    \/ \E a, b \in Instances : Swap(a, b)
    \/ \E v \in Instances, T \in AllTypes : As(v, T)
    \/ \E r \in Instances, T \in AllTypes, x \in Values : MakeVariant(r, T, x)

Spec == Init /\ [][Next]_vars

SpecAnyRegistry == SpecAnyRegistryInit /\ [][Next]_vars

TypeOK ==
    /\ TArgs \in Registries
    /\ \A v \in Instances : inst[v].state \in {"none", "alive", "dead"}
    /\ constructed \in 0..MaxObjects
    /\ terminated \in BOOLEAN

\* ------------------------------------------------------- claim vocabulary
\* The Empty state: Is<T>() is false for every alternative T.
IsEmpty(r) == \A k \in 1..Len(TArgs) : ~IsType(r, TArgs[k])

\* Holding(T): the tag names the alternative T and the buffer holds the bytes
\* of a T.
Holding(r, T) ==
    /\ \E k \in 1..Len(TArgs) : TArgs[k] = T
    /\ IsType(r, T)
    /\ r.mStorage.type = T

\* A live object of type T occupies the buffer of v.  For a resource type it
\* is an object constructed in that buffer and not destroyed since; for a
\* trivially copyable type the bytes of a T are a T.
LivePayload(i, v, T) ==
    /\ i[v].mStorage.type = T
    /\ T \in ResourceTypes => (i[v].mStorage.home = v /\ i[v].live >= 1)

\* No payload in the buffer of v.
NoPayload(i, v) == i[v].live = 0 /\ i[v].mStorage.type = "none"

\* C1: every live instance is either empty with no live payload object in
\* its buffer, or its tag is i and exactly one live object, of alternative i,
\* occupies its buffer.
ClaimC1 ==
    \A v \in Instances : Alive(v) =>
        \/ IsEmpty(inst[v]) /\ NoPayload(inst, v)
        \/ \E k \in 1..Len(TArgs) :
              /\ inst[v].mCurrTypeId = k - 1
              /\ LivePayload(inst, v, TArgs[k])
              /\ inst[v].live <= 1
              /\ inst[v].live = 1 => TArgs[k] \in ResourceTypes

\* C2: when a Variant holding a T is assigned a value of another alternative
\* U, T's destructor runs exactly once on the old payload, before U's
\* constructor runs (stated for the T that have a destructor to run).
ClaimC2 ==
    [][ lastOp'.op = "AssignValue" =>
          LET v   == lastOp'.dst
              old == inst[v].mStorage
              evs == lastOp'.events
          IN  \A T \in ResourceTypes :
                 (Holding(inst[v], T) /\ T # lastOp'.type) =>
                    /\ Len(evs) = 2
                    /\ evs[1] = DtorEvent(T, old.home)
                    /\ evs[2] = CtorEvent(lastOp'.type, v)
      ]_vars

\* C3: when a Variant holding a payload with a destructor is destroyed, the
\* payload in its buffer is destroyed exactly once, by that destruction and
\* not before.
ClaimC3 ==
    [][ lastOp'.op = "Destroy" =>
          LET old == inst[lastOp'.dst].mStorage
          IN  old.type \in ResourceTypes =>
                 lastOp'.events = <<DtorEvent(old.type, old.home)>>
      ]_vars

\* C4: a default-constructed Variant is Empty: Is<T>() is false for every
\* alternative T, until a value is assigned.
ClaimC4 ==
    lastOp.op = "DefaultConstruct" => IsEmpty(inst[lastOp.dst])

\* C5: after a value x of alternative T is assigned, Is<T>() is true, Is<U>()
\* is false for every other type U, and As<T>() reads a value equal to x.
TheoremC5 ==
    (lastOp.op = "AssignValue" /\ \E k \in 1..Len(TArgs) : TArgs[k] = lastOp.type) =>
        LET v == lastOp.dst
            T == lastOp.type
        IN  /\ Is(v, T)
            /\ \A U \in AllTypes \ {T} : ~Is(v, U)
            /\ inst[v].mStorage.type = T
            /\ PayloadValue(inst[v].mStorage) = lastOp.val

\* A value of the first alternative was assigned to a Variant in whose buffer
\* a value of another alternative had been constructed before.
WitnessC5 ==
    /\ lastOp.op = "AssignValue"
    /\ Len(TArgs) = 2
    /\ lastOp.type = TArgs[1]
    /\ Holding(inst[lastOp.dst], lastOp.type)
    /\ TArgs[2] \in ResourceTypes
    /\ inst[lastOp.dst].live >= 1

\* C6: As<T>() terminates the process exactly when Is<T>() is false; when
\* Is<T>() is true it returns a reference to the live payload and changes
\* neither the tag nor the payload.  First conjunct: in every state, an
\* As<T>() that returns (Is<T>() is true) finds a live T in the buffer.
\* Second conjunct: the steps of As<T>() terminate exactly when Is<T>() is
\* false and change nothing otherwise.
ClaimC6 ==
    /\ [](\A v \in Instances, T \in AllTypes :
            (~terminated /\ Alive(v) /\ Is(v, T)) => LivePayload(inst, v, T))
    /\ [][ \A v \in Instances, T \in AllTypes :
             As(v, T) => /\ terminated' <=> ~Is(v, T)
                         /\ Is(v, T) => inst' = inst
         ]_vars

\* C7: copy-constructing from a source in Holding(T) yields a Variant with
\* Is<T>() true that holds its own payload object, made by T's copy
\* constructor and equal to the source's payload; the source is unchanged
\* and the two payloads are independent of each other.
ClaimC7 ==
    [][ lastOp'.op = "CopyConstruct" =>
          LET d == lastOp'.dst
              s == lastOp'.src
          IN  \A T \in AllTypes :
                 Holding(inst[s], T) =>
                    /\ IsType(inst'[d], T)
                    /\ inst'[s] = inst[s]
                    /\ PayloadValue(inst'[d].mStorage) = PayloadValue(inst[s].mStorage)
                    /\ LivePayload(inst', d, T)
      ]_vars

\* C8: move-constructing from a source in Holding(T) yields a Variant with
\* Is<T>() true whose payload has the source's original value; the source
\* keeps the tag of T.
TheoremC8 ==
    [][ lastOp'.op = "MoveConstruct" =>
          LET d == lastOp'.dst
              s == lastOp'.src
          IN  \A T \in AllTypes :
                 Holding(inst[s], T) =>
                    /\ IsType(inst'[d], T)
                    /\ inst'[d].mStorage.type = T
                    /\ PayloadValue(inst'[d].mStorage) = PayloadValue(inst[s].mStorage)
                    /\ inst'[s].mCurrTypeId = inst[s].mCurrTypeId
                    /\ IsType(inst'[s], T)
      ]_vars

\* A Variant was move-constructed from a source holding the alternative at
\* index 1 of a two-alternative list.
WitnessC8 ==
    /\ lastOp.op = "MoveConstruct"
    /\ Len(TArgs) = 2
    /\ Holding(inst[lastOp.src], TArgs[2])
    /\ Holding(inst[lastOp.dst], TArgs[2])

TheoremC10 ==
    [][ (lastOp'.op = "CopyAssign" /\ lastOp'.dst = lastOp'.src) =>
          /\ inst' = inst
          /\ \A k \in 1..Len(lastOp'.events) : lastOp'.events[k].kind # "dtor"
      ]_vars

\* A Variant holding a live payload of a resource type was assigned to itself.
WitnessC10 ==
    /\ lastOp.op = "CopyAssign"
    /\ lastOp.dst = lastOp.src
    /\ \E T \in ResourceTypes :
          /\ Holding(inst[lastOp.dst], T)
          /\ LivePayload(inst, lastOp.dst, T)

\* T is one of the alternatives.
InRegistry(T) == \E k \in 1..Len(TArgs) : TArgs[k] = T

\* C11: a type that is not in the registry is never used at run time: no
\* Variant's tag equals the not-found sentinel, and no assignment and no
\* As<T>() runs for a T absent from the registry.
ClaimC11 ==
    /\ \A v \in Instances : Alive(v) => inst[v].mCurrTypeId # NotFound
    /\ lastOp.op \in {"AssignValue", "MakeVariant", "As"} => InRegistry(lastOp.type)

\* C12: no Variant instance exists whose alternative list is empty or holds
\* the same type twice: the alternatives of every instance have pairwise
\* distinct indices.
ClaimC12 ==
    \A v \in Instances : Alive(v) =>
        /\ TArgs # <<>>
        /\ \A j, k \in 1..Len(TArgs) :
              j # k => /\ TArgs[j] # TArgs[k]
                       /\ GetIndexOfType(TArgs[j], TArgs) # GetIndexOfType(TArgs[k], TArgs)

TheoremC14 ==
    constexprCall.fn = "GetMaxSize" =>
        LET list == constexprCall.args
        IN  /\ \E k \in 1..Len(list) : constexprValue = SizeOf(list[k])
            /\ \A k \in 1..Len(list) : SizeOf(list[k]) <= constexprValue

\* GetMaxSize was evaluated on a list whose largest type is not the first.
WitnessC14 ==
    /\ constexprCall.fn = "GetMaxSize"
    /\ Len(constexprCall.args) >= 2
    /\ SizeOf(constexprCall.args[1]) < SizeOf(constexprCall.args[2])
    /\ constexprValue = SizeOf(constexprCall.args[2])

\* C15: Storage<T, E>::mSize is max(sizeof(T), sizeof(E)) and mAlignment is
\* max(alignof(T), alignof(E)), for every T and E.
ClaimC15 ==
    LET T == constexprCall.args[1]
        E == constexprCall.args[2]
    IN  /\ constexprCall.fn = "mSize" =>
              /\ constexprValue \in {SizeOf(T), SizeOf(E)}
              /\ constexprValue >= SizeOf(T) /\ constexprValue >= SizeOf(E)
        /\ constexprCall.fn = "mAlignment" =>
              /\ constexprValue \in {AlignOf(T), AlignOf(E)}
              /\ constexprValue >= AlignOf(T) /\ constexprValue >= AlignOf(E)

\* =================================================================== Result
\* Record of a Result operation: its name, the instances it ran on, the type
\* and value it was given, the value it returned and the payload constructor
\* / destructor runs it made, in program order.
ResOp(name, d, s0, U, x, ret, evs) ==
    [op |-> name, dst |-> d, src |-> s0, type |-> U, val |-> x, ret |-> ret,
     events |-> evs]

ResAlive(r) == r \in 1..Len(res) /\ res[r].state = "alive"

\* Result instances are numbered in the order of their construction.
FreshResult(r) == r = Len(res) + 1

\* A Result that has just been constructed with the Storage sto.
NewResult(sto) ==
    [state |-> "alive", mIsInitialized |-> sto.mIsInitialized,
     mIsValid |-> sto.mIsValid, mData |-> sto.mData]

\* The constructor of a U runs and makes payload object o; the destructor of
\* U runs on the bytes of payload object o.
ResCtor(U, o) == [kind |-> "ctor", type |-> U, obj |-> o]
ResDtor(U, o) == [kind |-> "dtor", type |-> U, obj |-> o]

\* Bytes of payload object o, a U of value x.
DataOf(U, x, o) == [type |-> U, val |-> x, obj |-> o]

\* The instrumentation of the payloads: payloads[o] is the type of payload
\* object o and the number of destructor runs on it, 2 standing for twice or
\* more.
ApplyResEvent(p, e) ==
    IF e.kind = "ctor" THEN Append(p, [type |-> e.type, dtors |-> 0])
    ELSE IF e.obj \in 1..Len(p)
         THEN [p EXCEPT ![e.obj].dtors = IF @ < 2 THEN @ + 1 ELSE @]
         ELSE p

RECURSIVE ApplyResEvents(_, _)
ApplyResEvents(p, evs) ==
    IF evs = <<>> THEN p
    ELSE ApplyResEvents(ApplyResEvent(p, Head(evs)), Tail(evs))

\* The Storage part of the record of a Result.
StorageOf(st) ==
    [mIsInitialized |-> st.mIsInitialized, mIsValid |-> st.mIsValid,
     mData |-> st.mData]

WithStorage(st, sto) ==
    [st EXCEPT !.mIsInitialized = sto.mIsInitialized,
               !.mIsValid = sto.mIsValid, !.mData = sto.mData]

\* A mutant of Release: mIsValid is not cleared.
ReleaseKeepsValid(sto) ==
    [storage |-> [sto EXCEPT !.mIsInitialized = FALSE],
     events  |-> IF sto.mIsInitialized
                 THEN <<ResDtor(IF sto.mIsValid THEN TE[1] ELSE TE[2],
                                sto.mData.obj)>>
                 ELSE <<>>]

\* Storage::_release(): the destructor of T or of E, by mIsValid, runs on
\* the bytes of mData when mIsInitialized; both flags are cleared.
Release(sto) ==
    [storage |-> [sto EXCEPT !.mIsInitialized = FALSE, !.mIsValid = FALSE],
     events  |-> IF sto.mIsInitialized
                 THEN <<ResDtor(IF sto.mIsValid THEN TE[1] ELSE TE[2],
                                sto.mData.obj)>>
                 ELSE <<>>]

\* Storage(const TOkValue<T>&), Storage(const TErrValue<E>&): o is the
\* payload object the constructor makes.
StorageOk(x, o) ==
    [storage |-> [mIsInitialized |-> TRUE, mIsValid |-> TRUE,
                  mData |-> DataOf(TE[1], x, o)],
     events  |-> <<ResCtor(TE[1], o)>>]

StorageErr(x, o) ==
    [storage |-> [mIsInitialized |-> TRUE, mIsValid |-> FALSE,
                  mData |-> DataOf(TE[2], x, o)],
     events  |-> <<ResCtor(TE[2], o)>>]

\* Storage::Reset(const TOkValue<T>&)
ResetOk(sto, x, o) ==
    LET rel == IF sto.mIsInitialized THEN Release(sto)
               ELSE [storage |-> sto, events |-> <<>>]
    IN  [storage |-> [mIsInitialized |-> TRUE, mIsValid |-> TRUE,
                      mData |-> DataOf(TE[1], x, o)],
         events  |-> rel.events \o <<ResCtor(TE[1], o)>>]

\* Storage::Reset(const TErrValue<E>&): mIsValid is not assigned.
ResetErr(sto, x, o) ==
    LET rel == IF sto.mIsInitialized THEN Release(sto)
               ELSE [storage |-> sto, events |-> <<>>]
    IN  [storage |-> [mIsInitialized |-> TRUE,
                      mIsValid |-> rel.storage.mIsValid,
                      mData |-> DataOf(TE[2], x, o)],
         events  |-> rel.events \o <<ResCtor(TE[2], o)>>]

\* Storage::IsValid(), Result::IsOk(), HasError(), operator bool()
IsValid(st) == st.mIsValid
IsOk(st) == IsValid(st)
HasError(st) == ~IsValid(st)
OperatorBool(st) == IsValid(st)

\* What reading a destroyed object or reading the bytes as another type may
\* give: anything.
Undefined == 0..MaxValue

\* The object whose bytes are d can be read: it has no destructor, or its
\* destructor has not run.
Readable(d) ==
    \/ d.type \notin ResourceTypes
    \/ d.obj \in 1..Len(payloads) /\ payloads[d.obj].dtors = 0

\* Storage::GetAs<U>(), copied by the caller: *reinterpret_cast<const U*>(&mData)
GetAs(d, U) == IF d.type = U /\ Readable(d) THEN {d.val} ELSE Undefined

\* The payload object the next constructor run makes.
NextPayload == Len(payloads) + 1

\* Payload values are opaque to the Result, which only copies them.  The
\* payloads of a run are given different values, in turn, so that a read of
\* another payload than the one meant shows in the value.
ValueOfPayload(o) == ((o - 1) % MaxValue) + 1

\* Result(const TOkValue<T>& value)
ResultOk(r, x) ==
    /\ ~panicked
    /\ FreshResult(r)
    /\ Len(payloads) < MaxPayloads
    /\ x = ValueOfPayload(NextPayload)
    /\ LET new == StorageOk(x, NextPayload) IN
          /\ res' = Append(res, NewResult(new.storage))
          /\ payloads' = ApplyResEvents(payloads, new.events)
          /\ resOp' = ResOp("ResultOk", r, 0, TE[1], x, 0, new.events)
    /\ UNCHANGED <<TE, panicked>>
    /\ UNCHANGED notResultVars

\* Result(const TErrValue<E>& error)
ResultErr(r, x) ==
    /\ ~panicked
    /\ FreshResult(r)
    /\ Len(payloads) < MaxPayloads
    /\ x = ValueOfPayload(NextPayload)
    /\ LET new == StorageErr(x, NextPayload) IN
          /\ res' = Append(res, NewResult(new.storage))
          /\ payloads' = ApplyResEvents(payloads, new.events)
          /\ resOp' = ResOp("ResultErr", r, 0, TE[2], x, 0, new.events)
    /\ UNCHANGED <<TE, panicked>>
    /\ UNCHANGED notResultVars

\* Result(const Result& result) : mData(result.mData).  Storage declares no
\* copy constructor: the implicit one copies the two flags and the bytes of
\* mData, and runs no payload constructor.
ResultCopy(d, s0) ==
    /\ ~panicked
    /\ FreshResult(d)
    /\ ResAlive(s0)
    /\ res' = Append(res, NewResult(StorageOf(res[s0])))
    /\ resOp' = ResOp("ResultCopy", d, s0, "none", 0, 0, <<>>)
    /\ UNCHANGED <<TE, payloads, panicked>>
    /\ UNCHANGED notResultVars

\* Result(Result&& result) : mData(std::move(result.mData)).  Storage has a
\* user-declared destructor and so no move constructor: the implicit copy
\* constructor runs, and the source is left as it was.
ResultMove(d, s0) ==
    /\ ~panicked
    /\ FreshResult(d)
    /\ ResAlive(s0)
    /\ res' = Append(res, NewResult(StorageOf(res[s0])))
    /\ resOp' = ResOp("ResultMove", d, s0, "none", 0, 0, <<>>)
    /\ UNCHANGED <<TE, payloads, panicked>>
    /\ UNCHANGED notResultVars

\* ~Result() = default: ~Storage() runs _release().
ResultDestroy(r) ==
    /\ ~panicked
    /\ ResAlive(r)
    /\ LET rel == Release(StorageOf(res[r])) IN
          /\ res' = [res EXCEPT ![r] = DeadResult]
          /\ payloads' = ApplyResEvents(payloads, rel.events)
          /\ resOp' = ResOp("ResultDestroy", r, 0, "none", 0, 0, rel.events)
    /\ UNCHANGED <<TE, panicked>>
    /\ UNCHANGED notResultVars

\* Result& operator= (const TOkValue<T>& value): mData.Reset(value)
AssignOk(r, x) ==
    /\ ~panicked
    /\ ResAlive(r)
    /\ Len(payloads) < MaxPayloads
    /\ x = ValueOfPayload(NextPayload)
    /\ LET new == ResetOk(StorageOf(res[r]), x, NextPayload) IN
          /\ res' = [res EXCEPT ![r] = WithStorage(@, new.storage)]
          /\ payloads' = ApplyResEvents(payloads, new.events)
          /\ resOp' = ResOp("AssignOk", r, 0, TE[1], x, 0, new.events)
    /\ UNCHANGED <<TE, panicked>>
    /\ UNCHANGED notResultVars

\* Result& operator= (const TErrValue<E>& error): mData.Reset(error)
AssignErr(r, x) ==
    /\ ~panicked
    /\ ResAlive(r)
    /\ Len(payloads) < MaxPayloads
    /\ x = ValueOfPayload(NextPayload)
    /\ LET new == ResetErr(StorageOf(res[r]), x, NextPayload) IN
          /\ res' = [res EXCEPT ![r] = WithStorage(@, new.storage)]
          /\ payloads' = ApplyResEvents(payloads, new.events)
          /\ resOp' = ResOp("AssignErr", r, 0, TE[2], x, 0, new.events)
    /\ UNCHANGED <<TE, panicked>>
    /\ UNCHANGED notResultVars

\* Result& operator= (Result&& result): std::swap(mData, result.mData), which
\* is  Storage tmp(std::move(a)); a = std::move(b); b = std::move(tmp);  with
\* the implicit copy constructor and copy assignment of Storage (flags and
\* bytes), and then ~Storage() of tmp, which releases the payload whose bytes
\* tmp holds.  (operator= (const Result&) calls Reset with a Storage, for
\* which Reset has no overload: no program can call it.)  No property below
\* refers to the arguments of a move assignment, so resOp keeps its name and
\* events only.
ResultMoveAssign(d, s0) ==
    /\ ~panicked
    /\ ResAlive(d) /\ ResAlive(s0)
    /\ LET tmp == StorageOf(res[d])
           rel == Release(tmp)
       IN /\ res' = [res EXCEPT ![d] = WithStorage(@, StorageOf(res[s0])),
                                ![s0] = WithStorage(@, tmp)]
          /\ payloads' = ApplyResEvents(payloads, rel.events)
          /\ resOp' = ResOp("ResultMoveAssign", 0, 0, "none", 0, 0, rel.events)
    /\ UNCHANGED <<TE, panicked>>
    /\ UNCHANGED notResultVars

\* Panic(message): std::terminate(); no Result exists afterwards.
Panicked(name, r) ==
    /\ panicked' = TRUE
    /\ res' = <<>>
    /\ payloads' = <<>>
    /\ resOp' = ResOp(name, r, 0, "none", 0, 0, <<>>)

\* What Get(), GetOrDefault(altValue) and GetError() return when they
\* return: the set of the values the return statement can give.  U is T in
\* Get() and E in GetError(); in GetOrDefault(U&& altValue) it is deduced
\* from the argument, an rvalue of type U and value alt.
GetReturns(st) == GetAs(st.mData, TE[1])

GetOrDefaultReturns(st, U, alt) ==
    IF ~IsValid(st) THEN {alt} ELSE GetAs(st.mData, U)

GetErrorReturns(st) == GetAs(st.mData, TE[2])

\* U Get() const: Panic() unless mData.IsValid(); writes nothing.
Get(r) ==
    /\ ~panicked
    /\ ResAlive(r)
    /\ IF ~IsValid(res[r])
       THEN Panicked("Get", r)
       ELSE UNCHANGED <<res, payloads, resOp, panicked>>
    /\ UNCHANGED TE
    /\ UNCHANGED notResultVars

\* U GetOrDefault(U&& altValue): never calls Panic(); writes nothing.
GetOrDefault(r, U, alt) ==
    /\ ~panicked
    /\ ResAlive(r)
    /\ GetOrDefaultReturns(res[r], U, alt) # {}
    /\ UNCHANGED <<TE, res, payloads, resOp, panicked>>
    /\ UNCHANGED notResultVars

\* U GetError() const: Panic() if mData.IsValid(); writes nothing.
GetError(r) ==
    /\ ~panicked
    /\ ResAlive(r)
    /\ IF IsValid(res[r])
       THEN Panicked("GetError", r)
       ELSE UNCHANGED <<res, payloads, resOp, panicked>>
    /\ UNCHANGED TE
    /\ UNCHANGED notResultVars

ResultNext ==
    \/ \E r \in Results, x \in Values : ResultOk(r, x)
    \/ \E r \in Results, x \in Values : ResultErr(r, x)
    \/ \E d, s0 \in Results : ResultCopy(d, s0)
    \/ \E d, s0 \in Results : ResultMove(d, s0)
    \/ \E r \in Results : ResultDestroy(r)
    \/ \E r \in Results, x \in Values : AssignOk(r, x)
    \/ \E r \in Results, x \in Values : AssignErr(r, x)
    \/ \E d, s0 \in Results : ResultMoveAssign(d, s0)
    \/ \E r \in Results : Get(r)
    \/ \E r \in Results, U \in AllTypes, alt \in Values : GetOrDefault(r, U, alt)
    \/ \E r \in Results : GetError(r)

SpecResultInit ==
    VariantIdle /\ ConstexprInit /\ ResultInit /\ DelegateInit /\ DeferIdle
    /\ MemTrackerInit /\ StringUtilsInit

SpecResult == SpecResultInit /\ [][ResultNext]_vars

\* C16: IsOk() is true exactly when the Result holds a success value: true
\* after construction or assignment from TOkValue, false after construction
\* or assignment from TErrValue, in any order; HasError() is the negation of
\* IsOk() and the conversion to bool equals IsOk().
TheoremC16 ==
    /\ resOp.op \in {"ResultOk", "AssignOk"} => IsOk(res[resOp.dst])
    /\ resOp.op \in {"ResultErr", "AssignErr"} => ~IsOk(res[resOp.dst])
    /\ \A r \in Results : ResAlive(r) =>
          /\ IsOk(res[r]) <=> res[r].mData.type = TE[1]
          /\ HasError(res[r]) <=> ~IsOk(res[r])
          /\ OperatorBool(res[r]) <=> IsOk(res[r])

\* An error was assigned to a Result that held a success value.
WitnessC16 ==
    /\ resOp.op = "AssignErr"
    /\ Len(resOp.events) = 2
    /\ resOp.events[1] = ResDtor(TE[1], resOp.events[1].obj)
    /\ ~IsOk(res[resOp.dst])

\* C17: Get() returns the stored success value when IsOk() and terminates
\* the process when not; GetError() returns the stored error when not IsOk()
\* and terminates the process when IsOk(); GetOrDefault(fallback) never
\* terminates the process and returns the stored success value when IsOk()
\* and the fallback otherwise.  None of them changes the Result.
ClaimC17 ==
    /\ [](\A r \in Results : ResAlive(r) =>
            LET st     == res[r]
                stored == {st.mData.val}
            IN  /\ IsOk(st) =>
                      /\ GetReturns(st) = stored
                      /\ \A U \in AllTypes, alt \in Values :
                            GetOrDefaultReturns(st, U, alt) = stored
                /\ ~IsOk(st) =>
                      /\ GetErrorReturns(st) = stored
                      /\ \A U \in AllTypes, alt \in Values :
                            GetOrDefaultReturns(st, U, alt) = {alt})
    /\ [][ \A r \in Results :
             /\ Get(r) => /\ panicked' <=> ~IsOk(res[r])
                          /\ ~panicked' => res' = res
             /\ GetError(r) => /\ panicked' <=> IsOk(res[r])
                               /\ ~panicked' => res' = res
             /\ \A U \in AllTypes, alt \in Values :
                   GetOrDefault(r, U, alt) => (~panicked' /\ res' = res)
         ]_vars

\* C18: each Result exclusively owns its payload: every payload object with
\* a destructor that was constructed in a Result's storage is held by at
\* most one Result, its destructor has not run while a Result holds it, has
\* run exactly once when none does, and never runs twice.
ClaimC18 ==
    \A o \in 1..Len(payloads) :
        payloads[o].type \in ResourceTypes =>
            LET holders == {r \in Results : /\ ResAlive(r)
                                            /\ res[r].mIsInitialized
                                            /\ res[r].mData.obj = o}
            IN  /\ Cardinality(holders) <= 1
                /\ payloads[o].dtors <= 1
                /\ holders = {} <=> payloads[o].dtors = 1

\* The assignment op to the Result r: the destructor of the type of the
\* payload that r held ran once, on that payload, and then the constructor
\* of the type U made the payload that r holds afterwards.
Reassigned(r, U, x) ==
    LET old == res[r].mData
        o   == NextPayload
    IN  /\ resOp'.events = <<ResDtor(old.type, old.obj), ResCtor(U, o)>>
        /\ old.type \in ResourceTypes => payloads'[old.obj].dtors = 1
        /\ res'[r].mIsInitialized
        /\ res'[r].mData = DataOf(U, x, o)
        /\ payloads'[o] = [type |-> U, dtors |-> 0]
        /\ IsOk(res'[r]) <=> U = TE[1]

\* C28: assigning a TOkValue or a TErrValue to an existing Result destroys
\* the payload it held exactly once, with the destructor of the alternative
\* that was held, before the new payload is constructed; afterwards the
\* Result holds exactly the new payload.
ClaimC28 ==
    [][ \A r \in Results, x \in Values :
          /\ AssignOk(r, x) => Reassigned(r, TE[1], x)
          /\ AssignErr(r, x) => Reassigned(r, TE[2], x) ]_vars

\* ================================================================= Delegate
\* The callables given to Subscribe, and the std::function without a target
\* (nullptr), which converts to false.
Callables == 1..NumCallables
EmptyCallable == 0

\* TSubscriptionHandle::Invalid, (std::numeric_limits<uint32_t>::max)().  The
\* model's integers are 32 bits wide and signed: the largest of them stands
\* for it.
Invalid == 2147483647

\* Record of a Delegate operation: its name, the callable it was given, the
\* handle it was given or returned, the bool it returned and the listeners
\* it invoked, in order.
DelOp(name, listener, handle, ok, invoked) ==
    [op |-> name, listener |-> listener, handle |-> handle, ok |-> ok,
     invoked |-> invoked]

\* The subscriptions left when the handle h has been unsubscribed.
RECURSIVE WithoutHandle(_, _)
WithoutHandle(subs, h) ==
    IF subs = <<>> THEN <<>>
    ELSE IF Head(subs).handle = h THEN WithoutHandle(Tail(subs), h)
         ELSE <<Head(subs)>> \o WithoutHandle(Tail(subs), h)

\* The non-empty entries of a listener vector, in the order of the vector.
RECURSIVE NonEmpty(_)
NonEmpty(listeners) ==
    IF listeners = <<>> THEN <<>>
    ELSE IF Head(listeners) # EmptyCallable
         THEN <<Head(listeners)>> \o NonEmpty(Tail(listeners))
         ELSE NonEmpty(Tail(listeners))

\* TSubscriptionHandle Subscribe(std::function<void(TArgs...)> listener),
\* operator+=.  Index i of the vector is mListeners[i + 1] here.
Subscribe(listener) ==
    /\ ~asserted
    /\ IF listener = EmptyCallable
       THEN /\ delOp' = DelOp("Subscribe", listener, Invalid, TRUE, <<>>)
            /\ UNCHANGED <<mListeners, mFirstFreeEntityIndex, subscriptions>>
       ELSE IF mFirstFreeEntityIndex < Len(mListeners)
       THEN LET result == mFirstFreeEntityIndex IN
            /\ mListeners' = [mListeners EXCEPT ![mFirstFreeEntityIndex + 1] = listener]
            /\ mFirstFreeEntityIndex' = Len(mListeners)
            /\ subscriptions' = Append(subscriptions,
                                       [handle |-> result, listener |-> listener])
            /\ delOp' = DelOp("Subscribe", listener, result, TRUE, <<>>)
       ELSE LET result == Len(mListeners) IN   \* mListeners.size() - 1 afterwards
            /\ Len(mListeners) < MaxListeners
            /\ mListeners' = Append(mListeners, listener)
            /\ subscriptions' = Append(subscriptions,
                                       [handle |-> result, listener |-> listener])
            /\ delOp' = DelOp("Subscribe", listener, result, TRUE, <<>>)
            /\ UNCHANGED mFirstFreeEntityIndex
    /\ UNCHANGED <<asserted, unsubscribed, delegateThreads>>
    /\ UNCHANGED notDelegateVars

\* bool Unsubscribe(TSubscriptionHandle subscriptionHandle), operator-=.
\* For an index outside the vector, WRENCH_ASSERT(false) aborts the process
\* in a build with assertions and the call returns false in a build without
\* them.
Unsubscribe(subscriptionHandle) ==
    /\ ~asserted
    /\ LET index == subscriptionHandle IN
       IF index >= Len(mListeners)
       THEN /\ \/ /\ asserted' = TRUE
                  /\ mListeners' = <<>>
                  /\ mFirstFreeEntityIndex' = NoFreeEntityIndex
                  /\ subscriptions' = <<>>
               \/ UNCHANGED <<asserted, mListeners, mFirstFreeEntityIndex,
                              subscriptions>>
            /\ delOp' = DelOp("Unsubscribe", 0, subscriptionHandle, FALSE, <<>>)
       ELSE IF mListeners[index + 1] = EmptyCallable
       THEN /\ delOp' = DelOp("Unsubscribe", 0, subscriptionHandle, FALSE, <<>>)
            /\ UNCHANGED <<asserted, mListeners, mFirstFreeEntityIndex,
                           subscriptions>>
       ELSE /\ mListeners' = [mListeners EXCEPT ![index + 1] = EmptyCallable]
            /\ mFirstFreeEntityIndex' = subscriptionHandle
            /\ subscriptions' = WithoutHandle(subscriptions, subscriptionHandle)
            /\ delOp' = DelOp("Unsubscribe", 0, subscriptionHandle, TRUE, <<>>)
            /\ UNCHANGED asserted
    /\ unsubscribed' = IF asserted' THEN {}
                       ELSE IF delOp'.ok
                            THEN unsubscribed \cup {subscriptionHandle}
                            ELSE unsubscribed
    /\ UNCHANGED delegateThreads
    /\ UNCHANGED notDelegateVars

\* void UnsubscribeAll(), which ~Delegate() runs as well.
UnsubscribeAll ==
    /\ ~asserted
    /\ mFirstFreeEntityIndex' = NoFreeEntityIndex
    /\ mListeners' = <<>>
    /\ subscriptions' = <<>>
    /\ delOp' = DelOp("UnsubscribeAll", 0, 0, TRUE, <<>>)
    /\ UNCHANGED <<asserted, unsubscribed, delegateThreads>>
    /\ UNCHANGED notDelegateVars

\* void Notify(TArgs&&... args), operator(): every non-empty entry of
\* mListeners is invoked, in the order of the vector.
Notify ==
    /\ ~asserted
    /\ delOp' = DelOp("Notify", 0, 0, TRUE, NonEmpty(mListeners))
    /\ UNCHANGED <<mListeners, mFirstFreeEntityIndex, subscriptions, asserted,
                   unsubscribed, delegateThreads>>
    /\ UNCHANGED notDelegateVars

\* The handles given to Unsubscribe: the indices of the vector, the first
\* index past it, and Invalid.
Handles == (0..MaxListeners) \cup {Invalid}

DelegateNext ==
    \/ \E listener \in Callables \cup {EmptyCallable} : Subscribe(listener)
    \/ \E h \in Handles : Unsubscribe(h)
    \/ UnsubscribeAll
    \/ Notify

SpecDelegateInit ==
    VariantIdle /\ ConstexprInit /\ ResultIdle /\ DelegateInit /\ DeferIdle
    /\ MemTrackerInit /\ StringUtilsInit

SpecDelegate == SpecDelegateInit /\ [][DelegateNext]_vars

\* The number of entries of the sequence q for which the listener is c.
RECURSIVE CountOf(_, _)
CountOf(q, c) ==
    IF q = <<>> THEN 0
    ELSE (IF Head(q) = c THEN 1 ELSE 0) + CountOf(Tail(q), c)

\* The listeners of the live subscriptions, in the order of the Subscribe
\* calls.
RECURSIVE ListenersOf(_)
ListenersOf(subs) ==
    IF subs = <<>> THEN <<>>
    ELSE <<Head(subs).listener>> \o ListenersOf(Tail(subs))

\* C19: each Notify invokes exactly once every listener that was subscribed
\* with a non-empty callable and has not been unsubscribed since; no live
\* subscription is dropped or replaced by a later Subscribe.
ClaimC19 ==
    /\ delOp.op = "Notify" =>
          \A c \in Callables :
              CountOf(delOp.invoked, c) = CountOf(ListenersOf(subscriptions), c)
    /\ \A k \in 1..Len(subscriptions) :
          /\ subscriptions[k].handle < Len(mListeners)
          /\ mListeners[subscriptions[k].handle + 1] = subscriptions[k].listener

\* C20: every Subscribe with a non-empty callable returns a handle that is
\* not Invalid and differs from the handle of every other subscription that
\* is live at that moment.
ClaimC20 ==
    (delOp.op = "Subscribe" /\ delOp.listener # EmptyCallable) =>
        /\ delOp.handle # Invalid
        /\ \A k \in 1..(Len(subscriptions) - 1) :
              subscriptions[k].handle # delOp.handle

\* The subscription at position k of the ghost list is registered in the
\* listener vector: the entry of its handle holds its listener.
Registered(listeners, subs, k) ==
    /\ subs[k].handle < Len(listeners)
    /\ listeners[subs[k].handle + 1] = subs[k].listener

\* C21: Unsubscribe(h) on the handle h of a live subscription returns true
\* and empties the entry of h, so that no later Notify invokes the listener
\* subscribed under h; every other live subscription that was registered
\* before the call is registered after it.
ClaimC21 ==
    [][ \A h \in Handles, k \in 1..Len(subscriptions) :
            (Unsubscribe(h) /\ subscriptions[k].handle = h) =>
                /\ delOp'.ok
                /\ h < Len(mListeners')
                /\ mListeners'[h + 1] = EmptyCallable
                /\ \A j \in 1..Len(subscriptions) :
                      (j # k /\ Registered(mListeners, subscriptions, j)) =>
                          Registered(mListeners', subscriptions, j)
      ]_vars

\* The position, in the sequence of the invocations of one Notify, of the
\* invocation of the entry at the given index of the listener vector: the
\* loop of Notify has invoked the non-empty entries before it.
InvokedAt(listeners, index) ==
    Len(NonEmpty(SubSeq(listeners, 1, index + 1)))

\* C22: within one Notify the live listeners are invoked in the order in
\* which they were subscribed: of two subscriptions that are registered
\* under different handles, the one subscribed first is invoked first.
ClaimC22 ==
    delOp.op = "Notify" =>
        \A j, k \in 1..Len(subscriptions) :
            ( /\ j < k
              /\ subscriptions[j].handle # subscriptions[k].handle
              /\ Registered(mListeners, subscriptions, j)
              /\ Registered(mListeners, subscriptions, k) ) =>
                LET pj == InvokedAt(mListeners, subscriptions[j].handle)
                    pk == InvokedAt(mListeners, subscriptions[k].handle)
                IN  /\ delOp.invoked[pj] = subscriptions[j].listener
                    /\ delOp.invoked[pk] = subscriptions[k].listener
                    /\ pj < pk

\* C31: a subscription handle identifies one subscription for good: once
\* Unsubscribe(h) has returned true, a later Unsubscribe(h) removes no
\* listener, the listeners then registered being those of other, later
\* Subscribe calls.
ClaimC31 ==
    [][ \A h \in Handles :
            (Unsubscribe(h) /\ h \in unsubscribed) =>
                /\ ~delOp'.ok
                /\ ~asserted' => mListeners' = mListeners
      ]_vars

\* ======================================================= Delegate, threads
\* The member functions called from the threads of a program, DELEGATE_LOCK_
\* THREAD (std::lock_guard<std::mutex> lock(mMutex)) being the first
\* statement of each of them.  A step is a lock, an unlock, or one read or
\* write of mListeners or mFirstFreeEntityIndex.
Threads == 1..NumThreads

\* Listeners that call a member function of the Delegate they are subscribed
\* to: Notify(), Subscribe(callable 1), Unsubscribe(handle 0) and
\* UnsubscribeAll().
ReentrantCallables == {-1, -2, -3, -4}

\* The call a re-entrant listener makes.
CallOf(listener) ==
    CASE listener = -1 -> [op |-> "Notify", arg |-> 0]
      [] listener = -2 -> [op |-> "Subscribe", arg |-> 1]
      [] listener = -3 -> [op |-> "Unsubscribe", arg |-> 0]
      [] listener = -4 -> [op |-> "UnsubscribeAll", arg |-> 0]

\* A call that has not locked the mutex yet.  pc is the statement the call is
\* at, i the position of Notify's loop, invoked the listeners Notify has
\* invoked, handle and ok the value Subscribe and Unsubscribe are to return,
\* and snapshot the vector and the index at the time the call locked the
\* mutex.
Frame(op, arg) ==
    [op |-> op, arg |-> arg, pc |-> "lock", i |-> 0, invoked |-> <<>>,
     handle |-> 0, ok |-> FALSE, snapshot |-> <<>>]

\* The innermost call of thread t.
Top(t) == stacks[t][Len(stacks[t])]

\* Thread t is at statement pc of a call.
At(t, pc) == stacks[t] # <<>> /\ Top(t).pc = pc

\* The record of the threads when the innermost call of thread t has become
\* frame.
WithTop(t, frame) ==
    [delegateThreads EXCEPT !.stacks[t][Len(stacks[t])] = frame]

\* The Delegates the threads are given: a new one, and those left by
\* Subscribe(1); by Subscribe(1), Subscribe(2), Unsubscribe(0); and by
\* Subscribe of one re-entrant listener.
Prepared ==
    {<<(<<>>), NoFreeEntityIndex>>, <<(<<1>>), NoFreeEntityIndex>>,
     <<(<<EmptyCallable, 2>>), 0>>}
    \cup {<<(<<listener>>), NoFreeEntityIndex>> :
              listener \in ReentrantCallables}

DelegateThreadsInit ==
    /\ \E delegate \in Prepared :
          /\ mListeners = delegate[1]
          /\ mFirstFreeEntityIndex = delegate[2]
    /\ subscriptions = <<>>
    /\ delOp = NoDelOp
    /\ asserted = FALSE
    /\ unsubscribed = {}
    /\ delegateThreads =
          [mMutex |-> 0, stacks |-> [t \in Threads |-> <<>>], calls |-> 0]

\* The calls of Subscribe that have not appended to the vector yet.
PendingSubscribes ==
    Cardinality({t \in Threads : stacks[t] # <<>> /\ Top(t).op = "Subscribe"})

\* Thread t, which is in no call, calls a member function.
Call(t, op, arg) ==
    /\ ~asserted
    /\ stacks[t] = <<>>
    /\ calls < MaxCalls
    /\ op = "Subscribe" => Len(mListeners) + PendingSubscribes < MaxListeners
    /\ delegateThreads' =
          [delegateThreads EXCEPT !.stacks[t] = <<Frame(op, arg)>>,
                                  !.calls = @ + 1]
    /\ UNCHANGED <<mListeners, mFirstFreeEntityIndex, subscriptions, delOp,
                   asserted, unsubscribed>>
    /\ UNCHANGED notDelegateVars

\* A mutant of Lock: the mutex is taken whoever owns it.
LockUnowned(t) ==
    /\ ~asserted
    /\ At(t, "lock")
    /\ delegateThreads' =
          [WithTop(t, [Top(t) EXCEPT
                          !.pc = "body",
                          !.snapshot = <<mListeners, mFirstFreeEntityIndex>>])
             EXCEPT !.mMutex = t]
    /\ UNCHANGED <<mListeners, mFirstFreeEntityIndex, subscriptions, delOp,
                   asserted, unsubscribed>>
    /\ UNCHANGED notDelegateVars

\* DELEGATE_LOCK_THREAD: mMutex.lock().  The call waits while another thread
\* owns the mutex.  std::mutex is not recursive: when the calling thread
\* owns it already the behaviour is undefined, the call waits for ever or
\* lock() throws std::system_error and the noexcept function terminates the
\* process.
Lock(t) ==
    /\ ~asserted
    /\ At(t, "lock")
    /\ mMutex \in {0, t}
    /\ IF mMutex = 0
       THEN /\ delegateThreads' =
                  [WithTop(t, [Top(t) EXCEPT
                                  !.pc = "body",
                                  !.snapshot =
                                      <<mListeners, mFirstFreeEntityIndex>>])
                     EXCEPT !.mMutex = t]
            /\ UNCHANGED asserted
       ELSE \/ /\ delegateThreads' = WithTop(t, [Top(t) EXCEPT !.pc = "wait"])
               /\ UNCHANGED asserted
            \/ /\ asserted' = TRUE
               /\ UNCHANGED delegateThreads
    /\ UNCHANGED <<mListeners, mFirstFreeEntityIndex, subscriptions, delOp,
                   unsubscribed>>
    /\ UNCHANGED notDelegateVars

\* The statements of Subscribe up to the first write.
SubscribeBody(t) ==
    LET listener == Top(t).arg IN
    IF listener = EmptyCallable
    THEN /\ delegateThreads' =
               WithTop(t, [Top(t) EXCEPT !.pc = "unlock", !.handle = Invalid])
         /\ UNCHANGED <<mListeners, mFirstFreeEntityIndex>>
    ELSE IF mFirstFreeEntityIndex < Len(mListeners)
    THEN /\ mListeners' =
               [mListeners EXCEPT ![mFirstFreeEntityIndex + 1] = listener]
         /\ delegateThreads' =
               WithTop(t, [Top(t) EXCEPT !.pc = "second",
                                         !.handle = mFirstFreeEntityIndex])
         /\ UNCHANGED mFirstFreeEntityIndex
    ELSE /\ mListeners' = Append(mListeners, listener)
         /\ delegateThreads' =
               WithTop(t, [Top(t) EXCEPT !.pc = "unlock",
                                         !.handle = Len(mListeners)])
         /\ UNCHANGED mFirstFreeEntityIndex

\* The statements of Unsubscribe up to the first write.
UnsubscribeBody(t) ==
    LET index == Top(t).arg IN
    IF index >= Len(mListeners)
    THEN /\ \/ asserted' = TRUE /\ UNCHANGED delegateThreads
            \/ /\ delegateThreads' =
                     WithTop(t, [Top(t) EXCEPT !.pc = "unlock", !.ok = FALSE])
               /\ UNCHANGED asserted
         /\ UNCHANGED <<mListeners, mFirstFreeEntityIndex>>
    ELSE IF mListeners[index + 1] = EmptyCallable
    THEN /\ delegateThreads' =
               WithTop(t, [Top(t) EXCEPT !.pc = "unlock", !.ok = FALSE])
         /\ UNCHANGED <<mListeners, mFirstFreeEntityIndex, asserted>>
    ELSE /\ mListeners' = [mListeners EXCEPT ![index + 1] = EmptyCallable]
         /\ delegateThreads' =
               WithTop(t, [Top(t) EXCEPT !.pc = "second", !.ok = TRUE])
         /\ UNCHANGED <<mFirstFreeEntityIndex, asserted>>

\* One turn of Notify's loop: the entry at i is skipped when it is empty and
\* invoked when it is not.  A re-entrant listener calls the Delegate on the
\* thread that runs Notify, which goes on with the loop when the listener
\* has returned.
NotifyBody(t) ==
    LET i == Top(t).i IN
    IF i >= Len(mListeners)
    THEN delegateThreads' =
             WithTop(t, [Top(t) EXCEPT !.pc = "unlock"])
    ELSE LET currListener == mListeners[i + 1]
             next == [Top(t) EXCEPT
                         !.i = i + 1,
                         !.invoked = IF currListener = EmptyCallable THEN @
                                     ELSE Append(@, currListener)]
         IN  IF currListener \in ReentrantCallables
             THEN delegateThreads' =
                     [WithTop(t, next) EXCEPT
                         !.stacks[t] =
                             Append(@, Frame(CallOf(currListener).op,
                                             CallOf(currListener).arg))]
             ELSE delegateThreads' = WithTop(t, next)

\* The next statement of the call of thread t, which owns the mutex.
Body(t) ==
    /\ ~asserted
    /\ At(t, "body")
    /\ CASE Top(t).op = "Subscribe" ->
               SubscribeBody(t) /\ UNCHANGED asserted
         [] Top(t).op = "Unsubscribe" ->
               UnsubscribeBody(t)
         [] Top(t).op = "UnsubscribeAll" ->
               /\ mFirstFreeEntityIndex' = NoFreeEntityIndex
               /\ delegateThreads' = WithTop(t, [Top(t) EXCEPT !.pc = "second"])
               /\ UNCHANGED <<mListeners, asserted>>
         [] Top(t).op = "Notify" ->
               /\ NotifyBody(t)
               /\ UNCHANGED <<mListeners, mFirstFreeEntityIndex, asserted>>
    /\ UNCHANGED <<subscriptions, delOp, unsubscribed>>
    /\ UNCHANGED notDelegateVars

\* The second write of Subscribe, Unsubscribe and UnsubscribeAll.
Second(t) ==
    /\ ~asserted
    /\ At(t, "second")
    /\ CASE Top(t).op = "Subscribe" ->
               /\ mFirstFreeEntityIndex' = Len(mListeners)
               /\ UNCHANGED mListeners
         [] Top(t).op = "Unsubscribe" ->
               /\ mFirstFreeEntityIndex' = Top(t).arg
               /\ UNCHANGED mListeners
         [] Top(t).op = "UnsubscribeAll" ->
               /\ mListeners' = <<>>
               /\ UNCHANGED mFirstFreeEntityIndex
    /\ delegateThreads' = WithTop(t, [Top(t) EXCEPT !.pc = "unlock"])
    /\ UNCHANGED <<subscriptions, delOp, asserted, unsubscribed>>
    /\ UNCHANGED notDelegateVars

\* ~lock_guard(): mMutex.unlock(), and the call returns.
Unlock(t) ==
    /\ ~asserted
    /\ At(t, "unlock")
    /\ delegateThreads' =
          [delegateThreads EXCEPT
              !.mMutex = 0,
              !.stacks[t] = SubSeq(@, 1, Len(@) - 1)]
    /\ UNCHANGED <<mListeners, mFirstFreeEntityIndex, subscriptions, delOp,
                   asserted, unsubscribed>>
    /\ UNCHANGED notDelegateVars

\* The member functions and the arguments the threads call them with.
ThreadCalls ==
    {[op |-> "Subscribe", arg |-> listener] :
         listener \in Callables \cup {EmptyCallable}}
    \cup {[op |-> "Unsubscribe", arg |-> h] : h \in Handles}
    \cup {[op |-> "UnsubscribeAll", arg |-> 0], [op |-> "Notify", arg |-> 0]}

\* A step of thread t inside a call.
ThreadStep(t) == Lock(t) \/ Body(t) \/ Second(t) \/ Unlock(t)

DelegateThreadsNext ==
    \/ \E t \in Threads, c \in ThreadCalls : Call(t, c.op, c.arg)
    \/ \E t \in Threads : Lock(t)
    \/ \E t \in Threads : Body(t)
    \/ \E t \in Threads : Second(t)
    \/ \E t \in Threads : Unlock(t)

SpecDelegateThreadsInit ==
    VariantIdle /\ ConstexprInit /\ ResultIdle /\ DelegateThreadsInit
    /\ DeferIdle /\ MemTrackerInit /\ StringUtilsInit

SpecDelegateThreads == SpecDelegateThreadsInit /\ [][DelegateThreadsNext]_vars

\* Every thread that can take a step takes one: the scheduler runs every
\* thread, and a thread in a call is stopped only by the mutex.
SpecDelegateThreadsFair ==
    /\ SpecDelegateThreads
    /\ \A t \in Threads : WF_vars(ThreadStep(t))

\* C32: every call of Notify returns, whatever the listeners are, a listener
\* that calls Subscribe, Unsubscribe, UnsubscribeAll or Notify of the same
\* Delegate included: the thread that is in Notify leaves it, or the process
\* is aborted, and no call waits for ever for the mutex.
ClaimC32 ==
    \A t \in Threads :
        (stacks[t] # <<>> /\ stacks[t][1].op = "Notify") ~>
            (stacks[t] = <<>> \/ asserted)

\* Thread t is between the lock and the unlock of a call.
InCriticalSection(t) ==
    \E k \in 1..Len(stacks[t]) : stacks[t][k].pc \in {"body", "second", "unlock"}

\* The value the call of a frame returns.
Returned(frame) ==
    CASE frame.op = "Subscribe" -> frame.handle
      [] frame.op = "Unsubscribe" -> frame.ok
      [] frame.op = "UnsubscribeAll" -> 0
      [] frame.op = "Notify" -> frame.invoked

\* What a call leaves and returns when it runs alone on the vector listeners
\* and the index free: the vector, the index and the value returned.
Alone(op, arg, listeners, free) ==
    CASE op = "Subscribe" ->
            IF arg = EmptyCallable THEN <<listeners, free, Invalid>>
            ELSE IF free < Len(listeners)
                 THEN <<[listeners EXCEPT ![free + 1] = arg], Len(listeners),
                        free>>
                 ELSE <<Append(listeners, arg), free, Len(listeners)>>
      [] op = "Unsubscribe" ->
            IF arg >= Len(listeners) \/ listeners[arg + 1] = EmptyCallable
            THEN <<listeners, free, FALSE>>
            ELSE <<[listeners EXCEPT ![arg + 1] = EmptyCallable], arg, TRUE>>
      [] op = "UnsubscribeAll" -> <<(<<>>), NoFreeEntityIndex, 0>>
      [] op = "Notify" -> <<listeners, free, NonEmpty(listeners)>>

\* C33: concurrent calls of Subscribe, Unsubscribe, UnsubscribeAll and Notify
\* on one Delegate exclude each other.  At most one thread is between the
\* lock and the unlock of a call, and it owns the mutex; only the owner of
\* the mutex writes the vector and the index; and a call that returns leaves
\* the vector and the index, and returns the value, that the call running
\* alone leaves and returns from the state in which it locked the mutex, so
\* that the calls have the results of running one after another in the order
\* of their locks.
TheoremC33 ==
    /\ [](\A t, u \in Threads :
             InCriticalSection(t) =>
                 /\ mMutex = t
                 /\ InCriticalSection(u) => u = t)
    /\ [][ /\ <<mListeners, mFirstFreeEntityIndex>>' #
                  <<mListeners, mFirstFreeEntityIndex>> =>
                     /\ mMutex \in Threads
                     /\ \A u \in Threads \ {mMutex} : stacks'[u] = stacks[u]
           /\ \A t \in Threads :
                 Unlock(t) =>
                    <<mListeners, mFirstFreeEntityIndex, Returned(Top(t))>> =
                        Alone(Top(t).op, Top(t).arg,
                              Top(t).snapshot[1], Top(t).snapshot[2])
         ]_vars

\* Two threads are in calls at one time: one is between the two writes of
\* Subscribe, Unsubscribe or UnsubscribeAll while the other waits for the
\* mutex in a call that writes or reads the vector.
WitnessC33 ==
    \E t, u \in Threads :
        /\ t # u
        /\ At(t, "second")
        /\ At(u, "lock")
        /\ mMutex = t

\* ==================================================================== defer
\* The decimal digits of n, as the preprocessor writes the number.
RECURSIVE Digits(_)
Digits(n) == IF n < 10 THEN <<n>> ELSE Digits(n \div 10) \o <<n % 10>>

\* #define DEFER_CONCAT_ID(left, right): the identifier left ## right, an
\* identifier being the sequence of its characters.
DEFER_CONCAT_ID(left, right) == left \o right

\* #define DEFER_ID(id), where __COUNTER__ expands to c and __LINE__ to l.
DEFER_ID(id, c, l) ==
    DEFER_CONCAT_ID(id, DEFER_CONCAT_ID(Digits(c), Digits(l)))

\* The identifier the defer macro gives to DEFER_ID.
deferOp == <<"deferOp">>

\* struct TDeferOperation, as a local variable with a name.
TDeferOperation(name, action) == [name |-> name, mAction |-> action]

\* TDeferOperation::~TDeferOperation(): the callables it invokes.
DeferDestructor(d) ==
    IF d.mAction # EmptyCallable THEN <<d.mAction>> ELSE <<>>

\* A mutant of DestroyLocals: the locals are destroyed in the order of their
\* declarations.
RECURSIVE DestroyLocalsForward(_)
DestroyLocalsForward(locals) ==
    IF locals = <<>> THEN <<>>
    ELSE DeferDestructor(Head(locals)) \o DestroyLocalsForward(Tail(locals))

\* The end of a scope: its locals are destroyed in the reverse order of their
\* declarations.  The result is the sequence of the callables invoked.
RECURSIVE DestroyLocals(_)
DestroyLocals(locals) ==
    IF locals = <<>> THEN <<>>
    ELSE DeferDestructor(locals[Len(locals)])
            \o DestroyLocals(SubSeq(locals, 1, Len(locals) - 1))

\* The expressions a TDeferOperation could be copied or moved from.
ValueCategories == {"lvalue", "const lvalue", "rvalue", "const rvalue"}

\* A mutant of Constructors: the copy constructor is not declared, so the
\* compiler declares TDeferOperation(const TDeferOperation&) implicitly.
ConstructorsImplicitCopy ==
    { [param |-> "TActionCallback",        deleted |-> FALSE],
      [param |-> "const TDeferOperation&", deleted |-> FALSE],
      [param |-> "TDeferOperation&&",      deleted |-> TRUE] }

\* The constructors of TDeferOperation.  TDeferOperation(TDeferOperation&) is
\* a copy constructor, so none is declared implicitly.
Constructors ==
    { [param |-> "TActionCallback",   deleted |-> FALSE],
      [param |-> "TDeferOperation&",  deleted |-> TRUE],
      [param |-> "TDeferOperation&&", deleted |-> TRUE] }

\* The parameter of a constructor binds to a TDeferOperation expression of
\* the category.  A TDeferOperation has no operator(), so it does not
\* convert to TActionCallback (std::function<void()>).
Binds(param, category) ==
    CASE param = "TDeferOperation&"       -> category = "lvalue"
      [] param = "TDeferOperation&&"      -> category = "rvalue"
      [] param = "const TDeferOperation&" -> TRUE
      [] OTHER                            -> FALSE

\* "TDeferOperation b(a);" is well formed for an expression a of the
\* category: a constructor binds and the one that binds is not deleted.  (An
\* rvalue prefers TDeferOperation&& to const TDeferOperation&.)
Constructible(category) ==
    LET viable == {c \in Constructors : Binds(c.param, category)}
        best   == IF \E c \in viable : c.param = "TDeferOperation&&"
                  THEN {c \in viable : c.param = "TDeferOperation&&"}
                  ELSE viable
    IN  best # {} /\ \A c \in best : ~c.deleted

\* Code starts a new line.
NextLine ==
    /\ line < MaxLine
    /\ deferState' = [deferState EXCEPT !.line = line + 1]
    /\ UNCHANGED notDeferVars

\* "{": a lexical scope opens.
EnterScope ==
    /\ Len(scopes) < MaxDepth
    /\ deferState' = [deferState EXCEPT !.scopes = Append(scopes, <<>>)]
    /\ UNCHANGED notDeferVars

\* #define defer(op) const TDeferOperation DEFER_ID(deferOp)(op), with the
\* constructor TDeferOperation(TActionCallback action).  The callable of the
\* k-th defer statement is k, or the empty std::function.
Defer(callable) ==
    /\ scopes # <<>>
    /\ Len(ops) < MaxDefers
    /\ LET action == IF callable THEN Len(ops) + 1 ELSE EmptyCallable
           name   == DEFER_ID(deferOp, counter, line)
       IN  deferState' =
               [deferState EXCEPT
                   !.scopes = [scopes EXCEPT ![Len(scopes)] =
                                  Append(@, TDeferOperation(name, action))],
                   !.ops = Append(ops, [mAction |-> action, line |-> line,
                                        depth |-> Len(scopes)]),
                   !.counter = counter + 1]
    /\ UNCHANGED notDeferVars

\* "const TDeferOperation copy(d);" or "... copy(std::move(d));" for the
\* i-th local d of the innermost scope, by an expression of the category:
\* where the declaration is ill formed the program is rejected and nothing
\* runs.
CopyOrMove(i, category) ==
    /\ scopes # <<>>
    /\ i \in 1..Len(scopes[Len(scopes)])
    /\ IF Constructible(category)
       THEN deferState' =
               [deferState EXCEPT
                   !.scopes = [scopes EXCEPT ![Len(scopes)] =
                                  Append(@, TDeferOperation(<<"copy">>,
                                                            @[i].mAction))]]
       ELSE UNCHANGED deferState
    /\ UNCHANGED notDeferVars

\* "}": the innermost scope ends and its locals are destroyed.
ExitScope ==
    /\ scopes # <<>>
    /\ deferState' =
          [deferState EXCEPT
              !.executed = executed \o DestroyLocals(scopes[Len(scopes)]),
              !.scopes = SubSeq(scopes, 1, Len(scopes) - 1)]
    /\ UNCHANGED notDeferVars

DeferNext ==
    \/ NextLine
    \/ EnterScope
    \/ \E callable \in BOOLEAN : Defer(callable)
    \/ \E i \in 1..MaxDefers, category \in ValueCategories :
          CopyOrMove(i, category)
    \/ ExitScope

\* The translation unit has not expanded __COUNTER__ before, or so often
\* that the counter is about to get another digit; the code is on the lines
\* where the line number gets another digit.
DeferInit ==
    deferState \in {NoScopes(c, l) :
                       c \in {0} \cup ((MaxCounter - 1)..MaxCounter),
                       l \in (MaxLine - 1)..MaxLine}

SpecDeferInit ==
    /\ VariantIdle /\ ConstexprInit /\ ResultIdle /\ DelegateInit /\ DeferInit
    /\ MemTrackerInit /\ StringUtilsInit

SpecDefer == SpecDeferInit /\ [][DeferNext]_vars

\* The object of the k-th defer statement, or a copy of it, is a local of an
\* open scope.
InScope(k) ==
    \E s \in 1..Len(scopes) : \E i \in 1..Len(scopes[s]) :
        scopes[s][i].mAction = k

\* C23: the callable of a defer statement has not run while the scope of
\* the statement is open and has run exactly once when the scope has ended;
\* no expression of type TDeferOperation can be copied or moved into
\* another TDeferOperation.
TheoremC23 ==
    /\ \A k \in 1..Len(ops) :
          ops[k].mAction # EmptyCallable =>
              IF InScope(k) THEN CountOf(executed, k) = 0
                            ELSE CountOf(executed, k) = 1
    /\ \A category \in ValueCategories : ~Constructible(category)

\* A defer statement with a callable has run it at the end of its scope
\* while an older one, of the enclosing scope, still waits.
WitnessC23 ==
    \E j, k \in 1..Len(ops) :
        /\ j < k
        /\ ops[j].mAction # EmptyCallable /\ InScope(j)
        /\ ops[k].mAction # EmptyCallable /\ ~InScope(k)
        /\ executed = <<k>>

\* The callables that the step has invoked, in the order of the calls.
Ran == SubSeq(executed', Len(executed) + 1, Len(executed'))

ALLOCATION_HEADER_SIZE == 8

\* size_t arithmetic is modulo SIZE_MAX + 1; the model's size_t is 16 bits
\* wide.
SizeModulus == 65536
SizeT(n) == n % SizeModulus

\* The null pointer.
nullptr == 0

\* The heap serves blocks of up to BlockSize bytes, at most MaxAllocations
\* of them at a time; Base is the set of the addresses malloc can return.
BlockSize == 4 * ALLOCATION_HEADER_SIZE
Base == {BlockSize * i : i \in 1..MaxAllocations}

\* The sizes given to operator new: a few bytes, or more than the heap has.
Huge == SizeModulus \div 2
RequestSizes == (1..MaxSize) \cup {Huge}

\* The bytes a new[] expression puts in front of an array whose elements
\* have a destructor, to hold the element count; 0 for a single object and
\* for an array of elements without destructor.
ArrayCookie == ALLOCATION_HEADER_SIZE
Cookies == {0, ArrayCookie}

\* The addresses of the free blocks of the heap.
FreeBlocks ==
    {a \in Base : \A k \in 1..Len(blocks) :
                      blocks[k].pointer - ALLOCATION_HEADER_SIZE # a}

\* The addresses malloc may return for a request of n bytes: nullptr when
\* no block is large enough, else the address of a free block.
malloc(n) == IF n > BlockSize THEN {nullptr} ELSE FreeBlocks

\* The operation ends in WRENCH_UNREACHABLE() in a build with assertions:
\* the process aborts.
Aborted == [NoAllocations EXCEPT !.unreachable = TRUE]

\* TAllocationInfo* CreateMemTrackInfo(info, address, size); mpNext is the
\* rest of the sequence, and mpFilename and mLine, which are copied from
\* info, are left out.
CreateMemTrackInfo(address, size) == [mAddress |-> address, mSize |-> size]

\* void PushMemTrackInfo(pListHead, info, address, size): the new node is
\* the head.
PushMemTrackInfo(pListHead, address, size) ==
    <<CreateMemTrackInfo(address, size)>> \o pListHead

\* void RemoveMemTrackInfo(uintptr_t address): the first node with the
\* address is unlinked and freed.
RECURSIVE RemoveMemTrackInfo(_, _)
RemoveMemTrackInfo(list, address) ==
    IF list = <<>> THEN <<>>
    ELSE IF Head(list).mAddress = address THEN Tail(list)
         ELSE <<Head(list)>> \o RemoveMemTrackInfo(Tail(list), address)

\* The blocks without the one whose pointer free() was given.
RECURSIVE Freed(_, _)
Freed(bs, pPtr) ==
    IF bs = <<>> THEN <<>>
    ELSE IF Head(bs).pointer = pPtr THEN Tail(bs)
         ELSE <<Head(bs)>> \o Freed(Tail(bs), pPtr)

\* static inline void* Malloc(size_t size), first part: the counters are
\* updated before malloc is called.
Counted(info, size) ==
    [info EXCEPT !.mAllocationsCount = SizeT(@ + 1),
                 !.mTotalUsedMemory = SizeT(@ + size)]

\* Malloc, second part, for the address pTypedPtr that
\* malloc(size + ALLOCATION_HEADER_SIZE) returned and is not null: the size
\* is written to the header and the pointer behind the header is returned.
\* tracked is the address operator| records for the block (nullptr: none).
Allocated(info, pTypedPtr, size, tracked) ==
    [info EXCEPT !.blocks =
        Append(@, [pointer |-> pTypedPtr + ALLOCATION_HEADER_SIZE,
                   size    |-> size,
                   header  |-> size,
                   tracked |-> tracked])]

\* void* operator new(size_t size), operator new[]: Malloc(size).  When
\* malloc returns a null pointer Malloc ends in WRENCH_UNREACHABLE(), which
\* aborts in a build with assertions; in a build without them it returns
\* nullptr.
OperatorNew(size) ==
    /\ ~unreachable
    /\ mAllocationsCount < MaxAllocations
    /\ \E pTypedPtr \in malloc(SizeT(size + ALLOCATION_HEADER_SIZE)) :
          IF pTypedPtr = nullptr
          THEN \/ memTrackerState' = Aborted
               \/ memTrackerState' = Counted(memTrackerState, size)
          ELSE memTrackerState' =
                  Allocated(Counted(memTrackerState, size),
                            pTypedPtr, size, nullptr)
    /\ UNCHANGED notMemTrackerVars

\* WRENCH_NEW T or WRENCH_NEW T[n], that is TMemAllocationInfo(__FILE__,
\* __LINE__) | new ..., for a T of the given sizeof: the new expression
\* calls operator new for the object, or the array and its cookie, and its
\* value is the address of the object, or of the first element, behind the
\* cookie; operator| records that address and sizeof(T).
TrackedNew(sizeofT, cookie) ==
    /\ ~unreachable
    /\ mAllocationsCount < MaxAllocations
    /\ Len(mpAllocationsListCurrPtr) < MaxAllocations
    /\ \E pTypedPtr \in malloc(SizeT(sizeofT + cookie + ALLOCATION_HEADER_SIZE)) :
          LET pPtr == pTypedPtr + ALLOCATION_HEADER_SIZE + cookie
              info == Allocated(Counted(memTrackerState, sizeofT + cookie),
                                pTypedPtr, sizeofT + cookie, pPtr)
          IN  memTrackerState' =
                 [info EXCEPT !.mpAllocationsListCurrPtr =
                                  PushMemTrackInfo(@, pPtr, sizeofT)]
    /\ UNCHANGED notMemTrackerVars

\* void operator delete(void* pPtr), operator delete[]: Free(pPtr), for a
\* pointer that operator new returned and that has not been deleted.
OperatorDelete(pPtr) ==
    /\ ~unreachable
    /\ \E k \in 1..Len(blocks) :
          /\ blocks[k].pointer = pPtr
          /\ memTrackerState' =
                [memTrackerState EXCEPT
                    !.mAllocationsCount = SizeT(@ - 1),
                    !.mTotalUsedMemory = SizeT(@ - blocks[k].header),
                    !.mpAllocationsListCurrPtr = RemoveMemTrackInfo(@, pPtr),
                    !.blocks = Freed(@, pPtr)]
    /\ UNCHANGED notMemTrackerVars

\* The sum of the sizes requested for the blocks.
RECURSIVE SumOfSizes(_)
SumOfSizes(bs) ==
    IF bs = <<>> THEN 0 ELSE Head(bs).size + SumOfSizes(Tail(bs))

\* What the read of the size_t in front of the null pointer,
\* *reinterpret_cast<size_t*>(nullptr - ALLOCATION_HEADER_SIZE), may give
\* when it does not end the process: any size_t; the smallest and the
\* largest stand for them.
WildReads == {0, 1, SizeModulus - 1}

\* operator delete(nullptr), operator delete[](nullptr): Free(nullptr).
\* pTypedPtr is nullptr - ALLOCATION_HEADER_SIZE, which is not null, so the
\* branch of "if (!pTypedPtr)" is not taken: the count is decremented, the
\* size_t in front of the null pointer is read and subtracted,
\* RemoveMemTrackInfo(0) runs and free(pTypedPtr) is called.  The read and
\* the free are made at an address that is no object: the process ends
\* there (as it does in Aborted), or goes on with what the read gave.
OperatorDeleteNull ==
    /\ ~unreachable
    /\ mAllocationsCount = Len(blocks)
    /\ mTotalUsedMemory = SumOfSizes(blocks)
    /\ \/ memTrackerState' = Aborted
       \/ \E header \in WildReads :
             memTrackerState' =
                [memTrackerState EXCEPT
                    !.mAllocationsCount = SizeT(@ - 1),
                    !.mTotalUsedMemory = SizeT(@ - header),
                    !.mpAllocationsListCurrPtr =
                        RemoveMemTrackInfo(@, nullptr)]
    /\ UNCHANGED notMemTrackerVars

\* The pointers operator new can have returned.
Pointers == {a + ALLOCATION_HEADER_SIZE : a \in Base}

MemTrackerNext ==
    \/ \E size \in RequestSizes : OperatorNew(size)
    \/ \E sizeofT \in 1..MaxSize, cookie \in Cookies : TrackedNew(sizeofT, cookie)
    \/ \E pPtr \in Pointers : OperatorDelete(pPtr)
    \/ OperatorDeleteNull

SpecMemTrackerInit ==
    /\ VariantIdle /\ ConstexprInit /\ ResultIdle /\ DelegateInit /\ DeferIdle
    /\ MemTrackerInit /\ StringUtilsInit

SpecMemTracker == SpecMemTrackerInit /\ [][MemTrackerNext]_vars

\* C24: after any sequence of operator new and operator delete calls,
\* mAllocationsCount is the number of the outstanding allocations and
\* mTotalUsedMemory the sum of the sizes requested for them; both are 0
\* when every allocation has been deleted.
ClaimC24 ==
    ~unreachable =>
        /\ mAllocationsCount = Len(blocks)
        /\ mTotalUsedMemory = SumOfSizes(blocks)
        /\ blocks = <<>> => (mAllocationsCount = 0 /\ mTotalUsedMemory = 0)

\* The addresses operator| recorded for the blocks, newest first.
RECURSIVE TrackedOf(_)
TrackedOf(bs) ==
    IF bs = <<>> THEN <<>>
    ELSE TrackedOf(Tail(bs))
            \o (IF Head(bs).tracked # nullptr THEN <<Head(bs).tracked>> ELSE <<>>)

\* The addresses of the nodes of an allocation list, head first.
RECURSIVE AddressesOf(_)
AddressesOf(list) ==
    IF list = <<>> THEN <<>>
    ELSE <<Head(list).mAddress>> \o AddressesOf(Tail(list))

\* C29: the allocation list holds exactly one node for each tracked
\* allocation that has not been deleted, newest first, and no two nodes have
\* the same address: deleting an allocation has removed its node and no
\* other.
ClaimC29 ==
    ~unreachable =>
        /\ AddressesOf(mpAllocationsListCurrPtr) = TrackedOf(blocks)
        /\ \A i, j \in 1..Len(mpAllocationsListCurrPtr) :
              i # j => mpAllocationsListCurrPtr[i].mAddress
                          # mpAllocationsListCurrPtr[j].mAddress

\* C34: operator delete and operator delete[] on a null pointer leave the
\* memory tracker unchanged: the process goes on, mAllocationsCount and
\* mTotalUsedMemory keep their values and the allocation list is not
\* modified.
ClaimC34 == [][OperatorDeleteNull => memTrackerState' = memTrackerState]_vars

\* ============================================================== StringUtils
\* A std::string is the sequence of its chars, a char its code (char is
\* signed: the bytes above 127 are negative).  Position i of the string is
\* the element i + 1 of the sequence.
Strings(chars, n) == UNION { [1..k -> chars] : k \in 0..n }

\* std::string::npos, the largest size_t; the model's integers are 32 bits
\* wide and signed.
npos == 2147483647

\* size_type std::string::find_first_of(const std::string& str, size_type
\* pos): the first position at or after pos of a char that is one of the
\* chars of str.
find_first_of(s, str, pos) ==
    LET hits == {i \in pos..(Len(s) - 1) :
                    \E k \in 1..Len(str) : s[i + 1] = str[k]}
    IN  IF hits = {} THEN npos
        ELSE CHOOSE i \in hits : \A j \in hits : i <= j

\* std::string std::string::substr(size_type pos, size_type n), for
\* pos <= size(): the chars from pos on, n of them at most.
substr(s, pos, n) ==
    SubSeq(s, pos + 1, IF pos + n > Len(s) THEN Len(s) ELSE pos + n)

\* int std::isspace(int ch) in the "C" locale, for the values of unsigned
\* char: space, \t, \n, \v, \f, \r.
isspace(ch) == ch \in {32} \cup (9..13)

\* The call has ended: it has returned the value, or thrown an exception, or
\* aborted the process, which leave no value.
Ended(status, value) ==
    [suCall |-> suCall, output |-> value, suStatus |-> status]

\* ---- ReplaceAll
\* The chars of the strings given to ReplaceAll: '/' and 'a'.
ReplaceAllChars == {47, 97}

\* std::string ReplaceAll(input, what, replacement) is entered: output is a
\* copy of input.
ReplaceAll ==
    /\ suStatus = "idle"
    /\ suCall.fn = "ReplaceAll"
    /\ stringUtilsState' = [stringUtilsState EXCEPT !.output = suCall.input,
                                                    !.suStatus = "running"]
    /\ UNCHANGED notStringUtilsVars

\* One evaluation of the loop condition of ReplaceAll and, where it holds,
\* of the loop body.  substr(pos) throws std::out_of_range for a pos beyond
\* the end of the string, and a string longer than max_size() cannot be
\* built (std::length_error).
ReplaceAllLoop ==
    /\ suStatus = "running"
    /\ LET what          == suCall.what
           whatStrLength == Len(what)
           pos           == find_first_of(output, what, 0)
       IN  IF pos = npos
           THEN stringUtilsState' =
                   [stringUtilsState EXCEPT !.suStatus = "returned"]
           ELSE IF pos + whatStrLength > Len(output)
           THEN stringUtilsState' = Ended("thrown", <<>>)
           ELSE LET next == substr(output, 0, pos) \o suCall.replacement
                               \o substr(output, pos + whatStrLength,
                                         Len(output))
                IN  IF Len(next) > MaxStringSize
                    THEN stringUtilsState' = Ended("thrown", <<>>)
                    ELSE stringUtilsState' =
                            [stringUtilsState EXCEPT !.output = next]
    /\ UNCHANGED notStringUtilsVars

\* ---- RemoveExtraWhitespaces
\* The chars of the strings given to RemoveExtraWhitespaces: ' ', '\t', 'a'
\* and the byte 0xE9, which is -23 as a char.
WhitespaceChars == {32, 9, 97, -23}

\* What std::isspace(ch) does for a char ch: it is given ch converted to
\* int.  For a negative value other than EOF the behaviour is undefined: the
\* call yields zero, yields nonzero, or aborts (an assertion of the C
\* runtime).
IsSpaceOutcomes == {"zero", "nonzero", "abort"}

\* The value of "bool isCurrChSpace = std::isspace(ch)" where it has one.
IsCurrChSpace(ch, undefined) ==
    IF ch >= 0 THEN isspace(ch) ELSE undefined = "nonzero"

\* processedStr.erase(std::remove_if(begin, end, predicate), end) with the
\* predicate of RemoveExtraWhitespaces, which is applied to the chars from
\* left to right and holds in isPrevChSpace whether the char before was a
\* whitespace char.
RECURSIVE RemoveIf(_, _, _)
RemoveIf(s, isPrevChSpace, undefined) ==
    IF s = <<>> THEN <<>>
    ELSE LET isCurrChSpace == IsCurrChSpace(Head(s), undefined)
             result        == isCurrChSpace /\ isPrevChSpace
         IN  (IF result THEN <<>> ELSE <<Head(s)>>)
                \o RemoveIf(Tail(s), isCurrChSpace, undefined)

\* std::string RemoveExtraWhitespaces(const std::string& str).
RemoveExtraWhitespaces ==
    /\ suStatus = "idle"
    /\ suCall.fn = "RemoveExtraWhitespaces"
    /\ LET str == suCall.str IN
       IF suCall.undefined = "abort" /\ \E i \in 1..Len(str) : str[i] < 0
       THEN stringUtilsState' = Ended("aborted", <<>>)
       ELSE stringUtilsState' =
               Ended("returned", RemoveIf(str, FALSE, suCall.undefined))
    /\ UNCHANGED notStringUtilsVars

\* ---- Split
\* The chars of the strings given to Split: 'a', ',' and ';'; the delimiters
\* are ',' and ';'.
SplitChars == {97, 44, 59}
DelimiterChars == {44, 59}

\* A mutant of SplitLoop: empty tokens are kept.
RECURSIVE SplitLoopKeepEmpty(_, _, _, _)
SplitLoopKeepEmpty(str, delims, currPos, tokens) ==
    LET pos == find_first_of(str, delims, currPos) IN
    IF currPos < Len(str) /\ pos # npos
    THEN LET currToken == substr(str, currPos, pos - currPos)
         IN  SplitLoopKeepEmpty(str, delims, pos + 1, Append(tokens, currToken))
    ELSE IF currPos # Len(str)
         THEN Append(tokens, substr(str, currPos, Len(str) - currPos))
         ELSE tokens

\* The loop of Split and the statement after it, from the values of currPos
\* and tokens at the loop condition: the vector returned.
RECURSIVE SplitLoop(_, _, _, _)
SplitLoop(str, delims, currPos, tokens) ==
    LET pos == find_first_of(str, delims, currPos) IN
    IF currPos < Len(str) /\ pos # npos
    THEN LET currToken == substr(str, currPos, pos - currPos)
         IN  SplitLoop(str, delims, pos + 1,
                       IF currToken # <<>> THEN Append(tokens, currToken)
                                           ELSE tokens)
    ELSE IF currPos # Len(str)
         THEN Append(tokens, substr(str, currPos, Len(str) - currPos))
         ELSE tokens

\* std::vector<std::string> Split(const std::string& str, const
\* std::string& delims).
Split ==
    /\ suStatus = "idle"
    /\ suCall.fn = "Split"
    /\ stringUtilsState' =
          Ended("returned", SplitLoop(suCall.str, suCall.delims, 0, <<>>))
    /\ UNCHANGED notStringUtilsVars

StringUtilsNext ==
    \/ ReplaceAll
    \/ ReplaceAllLoop
    \/ RemoveExtraWhitespaces
    \/ Split

\* The calls under test: the function and its arguments.  undefined is what
\* std::isspace does in the call where its behaviour is undefined.
Calls ==
    [fn : {"ReplaceAll"},
     input : Strings(ReplaceAllChars, MaxLen),
     what : Strings(ReplaceAllChars, MaxWhat),
     replacement : Strings(ReplaceAllChars, MaxWhat)]
    \cup [fn : {"RemoveExtraWhitespaces"},
          str : Strings(WhitespaceChars, MaxLen),
          undefined : IsSpaceOutcomes]
    \cup [fn : {"Split"},
          str : Strings(SplitChars, MaxLen),
          delims : Strings(DelimiterChars, MaxWhat)]

\* A program is about to make one of the calls.
SpecStringUtilsInit ==
    /\ VariantIdle /\ ConstexprInit /\ ResultIdle /\ DelegateInit /\ DeferIdle
    /\ MemTrackerInit
    /\ stringUtilsState \in {Called(call) : call \in Calls}

SpecStringUtils == SpecStringUtilsInit /\ [][StringUtilsNext]_vars

\* The thread that makes the call keeps running: a call that can be entered
\* is entered, and a loop that can make another iteration makes it.
SpecStringUtilsFair ==
    /\ SpecStringUtils
    /\ WF_vars(ReplaceAll) /\ WF_vars(ReplaceAllLoop)
    /\ WF_vars(RemoveExtraWhitespaces) /\ WF_vars(Split)

\* The string with every occurrence of the substring what replaced, the
\* occurrences being taken from left to right.
RECURSIVE Replaced(_, _, _)
Replaced(s, what, replacement) ==
    IF Len(s) < Len(what) THEN s
    ELSE IF SubSeq(s, 1, Len(what)) = what
         THEN replacement
                 \o Replaced(SubSeq(s, Len(what) + 1, Len(s)), what, replacement)
         ELSE <<Head(s)>> \o Replaced(Tail(s), what, replacement)

\* C25: a call of ReplaceAll with a non-empty what returns, and returns
\* input with every occurrence of the substring what replaced by
\* replacement: input itself when what does not occur in it.
ClaimC25 ==
    ( /\ suCall.fn = "ReplaceAll"
      /\ suCall.what # <<>>
      /\ suStatus \in {"returned", "thrown"} ) =>
        /\ suStatus = "returned"
        /\ output = Replaced(suCall.input, suCall.what, suCall.replacement)

\* A whitespace character: one of the six for which std::isspace holds in
\* the "C" locale.  The bytes above 127 are not among them.
IsWhitespace(ch) == ch >= 0 /\ isspace(ch)

\* The chars of s at the positions of the set keep, in their order, from
\* position i on.
RECURSIVE Pick(_, _, _)
Pick(s, keep, i) ==
    IF i > Len(s) THEN <<>>
    ELSE (IF i \in keep THEN <<s[i]>> ELSE <<>>) \o Pick(s, keep, i + 1)

\* The string with every whitespace character replaced by a space.
Blank(s) == [i \in 1..Len(s) |-> IF IsWhitespace(s[i]) THEN 32 ELSE s[i]]

\* The string with every maximal run of whitespace characters reduced to
\* its first character.
Reduced(s) ==
    Pick(s, {i \in 1..Len(s) :
                ~(IsWhitespace(s[i]) /\ i > 1 /\ IsWhitespace(s[i - 1]))}, 1)

\* C26: a call of RemoveExtraWhitespaces returns str with every maximal run
\* of whitespace characters reduced to one whitespace character and every
\* other character kept in its place; the result has no two adjacent
\* whitespace characters, and the function maps it to itself.
ClaimC26 ==
    (suCall.fn = "RemoveExtraWhitespaces" /\ suStatus # "idle") =>
        /\ suStatus = "returned"
        /\ Blank(output) = Blank(Reduced(suCall.str))
        /\ \A i \in 1..(Len(output) - 1) :
              ~(IsWhitespace(output[i]) /\ IsWhitespace(output[i + 1]))
        /\ RemoveIf(output, FALSE, suCall.undefined) = output

\* The char at position i (from 1) of str is one of the delimiters.
IsDelimiter(str, delims, i) == \E k \in 1..Len(delims) : str[i] = delims[k]

\* The positions where a maximal run of chars that are no delimiters starts,
\* and the position where the run that starts at s ends.
RunStarts(str, delims) ==
    {i \in 1..Len(str) :
        /\ ~IsDelimiter(str, delims, i)
        /\ i = 1 \/ IsDelimiter(str, delims, i - 1)}
RunEnd(str, delims, s) ==
    CHOOSE e \in s..Len(str) :
        /\ \A i \in s..e : ~IsDelimiter(str, delims, i)
        /\ e = Len(str) \/ IsDelimiter(str, delims, e + 1)

\* C27: Split returns, from left to right, exactly the maximal non-empty
\* substrings of str without a char of delims: the k-th token is the k-th
\* such run, so no token is empty or holds a delimiter, and leading,
\* trailing and consecutive delimiters give no token.
TheoremC27 ==
    (suCall.fn = "Split" /\ suStatus # "idle") =>
        LET str    == suCall.str
            delims == suCall.delims
            starts == RunStarts(str, delims)
        IN  /\ suStatus = "returned"
            /\ Len(output) = Cardinality(starts)
            /\ \A s \in starts :
                  output[Cardinality({t \in starts : t <= s})]
                      = SubSeq(str, s, RunEnd(str, delims, s))
            /\ \A k \in 1..Len(output) :
                  /\ output[k] # <<>>
                  /\ \A i \in 1..Len(output[k]) :
                        ~IsDelimiter(output[k], delims, i)

\* Split has returned two tokens for a string with two delimiters in a row.
WitnessC27 ==
    /\ suCall.fn = "Split"
    /\ suStatus = "returned"
    /\ Len(output) = 2
    /\ \E i \in 1..(Len(suCall.str) - 1) :
          /\ IsDelimiter(suCall.str, suCall.delims, i)
          /\ IsDelimiter(suCall.str, suCall.delims, i + 1)

\* C35: ReplaceAll terminates for every input, what and replacement: a call
\* that is made ends, by a return or by an exception.  (An iteration of the
\* loop that leaves output as it was is followed by the same iteration, for
\* ever.)
ClaimC35 ==
    (suCall.fn = "ReplaceAll") ~> (suStatus \in {"returned", "thrown"})

=============================================================================
